---- MODULE Spec2Model ----
(***************************************************************************)
(* Model of flint (flake input linter): identity URLs of locked inputs,    *)
(* the dependency relations of a lock graph, duplicate detection, the exit *)
(* status, and the concurrent update resolver.                             *)
(*                                                                         *)
(* Go strings are modelled as sequences of one-character strings, so that  *)
(* strings.Contains, strings.Index and slicing are computed as the code    *)
(* computes them.                                                          *)
(***************************************************************************)
EXTENDS Integers, Sequences, FiniteSets, TLC

\* ------------------------------------------------------------------ bounds
\* longest sequence-valued input reference ("follows" path) in a lock graph
MaxFollows == 2
\* number of inputs the root node may declare in the update resolver
MaxRootInputs == 2
\* pieces a string handed to ExtractRepoIdentity is put together from
MaxPieces == 3

\* ------------------------------------------------------- string constants
Empty == << >>
TGithub == <<"g","i","t","h","u","b">>
TGitlab == <<"g","i","t","l","a","b">>
TSourcehut == <<"s","o","u","r","c","e","h","u","t">>
TGit == <<"g","i","t">>
THg == <<"h","g">>
TTarball == <<"t","a","r","b","a","l","l">>
TPath == <<"p","a","t","h">>
TIndirect == <<"i","n","d","i","r","e","c","t">>
Https == <<"h","t","t","p","s",":","/","/">>
Http == <<"h","t","t","p",":","/","/">>
GitScheme == <<"g","i","t",":","/","/">>
SshScheme == <<"s","s","h",":","/","/">>
DotGit == <<".","g","i","t">>
HeadRef == <<"H","E","A","D">>
Peeled == <<"^","{","}">>
TagType == <<"t","a","g">>
CommitType == <<"c","o","m","m","i","t">>
SlashArchive == <<"/","a","r","c","h","i","v","e","/">>
SlashReleases == <<"/","r","e","l","e","a","s","e","s","/","d","o","w","n","l","o","a","d","/">>
RefsTags == <<"r","e","f","s","/","t","a","g","s","/">>
ArchiveExts == {<<".","t","a","r",".","g","z">>, <<".","z","i","p">>, <<".","t","a","r",".","x","z">>}
Colon == <<":">>
Slash == <<"/">>
Q == <<"?">>
Amp == <<"&">>
QHost == <<"?","h","o","s","t","=">>
RevEq == <<"r","e","v","=">>
NarHashEq == <<"n","a","r","H","a","s","h","=">>

\* --------------------------------------------------- Go string primitives
Min(S) == CHOOSE x \in S : \A y \in S : x <= y

\* strings.Index(s, sub): 0-based index of the first occurrence, -1 if none
Index(s, sub) ==
  LET cand == {i \in 0..(Len(s) - Len(sub)) : SubSeq(s, i + 1, i + Len(sub)) = sub}
  IN IF cand = {} THEN -1 ELSE Min(cand)

\* strings.Contains(s, sub)
Contains(s, sub) == Index(s, sub) # -1

\* s[:n]
Prefix(s, n) == SubSeq(s, 1, n)

\* s[n:]
Suffix(s, n) == SubSeq(s, n + 1, Len(s))

\* strings.HasPrefix(s, p)
HasPrefix(s, p) == Len(s) >= Len(p) /\ SubSeq(s, 1, Len(p)) = p

\* strings.HasSuffix(s, p)
HasSuffix(s, p) == Len(s) >= Len(p) /\ SubSeq(s, Len(s) - Len(p) + 1, Len(s)) = p

\* strings.TrimSuffix(s, p)
TrimSuffix(s, p) == IF HasSuffix(s, p) THEN SubSeq(s, 1, Len(s) - Len(p)) ELSE s

\* strings.Replace(s, old, new, 1)
ReplaceFirst(s, old, new) ==
  LET i == Index(s, old)
  IN IF i = -1 THEN s ELSE Prefix(s, i) \o new \o Suffix(s, i + Len(old))

\* the literal lit stands in s at the 1-based position i
At(s, i, l) == i >= 1 /\ i + Len(l) - 1 <= Len(s) /\ SubSeq(s, i, i + Len(l) - 1) = l

\* position of the first "/" of s at or after position from, Len(s) + 1 if none
NextSlash(s, from) ==
  Min({i \in from..Len(s) : s[i] = "/"} \cup {Len(s) + 1})

Max(S) == CHOOSE x \in S : \A y \in S : x >= y

\* ------------------------------------------------------------ util.go
\* safeGetString: the value under key, "" when the key is absent
safeGetString(m, key) == IF key \in DOMAIN m THEN m[key] ELSE Empty

\* generateRepoURL appending "?host=" whether or not there is a host
generateRepoURL_alwaysHost(repo) ==
  IF repo.Type \in {TGithub, TGitlab, TSourcehut}
  THEN repo.Type \o Colon \o repo.Owner \o Slash \o repo.Repo \o QHost \o repo.Host
  ELSE IF repo.Type \in {TGit, THg, TTarball}
  THEN repo.Type \o Colon \o repo.URL
  ELSE IF repo.Type = TPath
  THEN repo.Type \o Colon \o repo.Path
  ELSE Empty

generateRepoURL(repo) ==
  IF repo.Type \in {TGithub, TGitlab, TSourcehut}
  THEN LET u == repo.Type \o Colon \o repo.Owner \o Slash \o repo.Repo
       IN IF repo.Host # Empty THEN u \o QHost \o repo.Host ELSE u
  ELSE IF repo.Type \in {TGit, THg, TTarball}
  THEN repo.Type \o Colon \o repo.URL
  ELSE IF repo.Type = TPath
  THEN repo.Type \o Colon \o repo.Path
  ELSE Empty

\* the Input value flakeURL builds from the locked map
RepoOf(locked) ==
  [Type |-> safeGetString(locked, "type"),
   Owner |-> safeGetString(locked, "owner"),
   Repo |-> safeGetString(locked, "repo"),
   Host |-> safeGetString(locked, "host"),
   URL |-> safeGetString(locked, "url"),
   Path |-> safeGetString(locked, "path")]

\* the version suffix with narHash always joined by "&"
VersionSuffix_alwaysAmp(rev, narHash) ==
  IF rev # Empty \/ narHash # Empty
  THEN Q \o (IF rev # Empty THEN RevEq \o rev ELSE Empty)
         \o (IF narHash # Empty THEN Amp \o NarHashEq \o narHash ELSE Empty)
  ELSE Empty

\* the version suffix flakeURL appends to the identity URL
VersionSuffix(rev, narHash) ==
  IF rev # Empty \/ narHash # Empty
  THEN Q \o (IF rev # Empty THEN RevEq \o rev ELSE Empty)
         \o (IF narHash # Empty
             THEN (IF rev # Empty THEN Amp ELSE Empty) \o NarHashEq \o narHash
             ELSE Empty)
  ELSE Empty

flakeURL_noVersion(locked) == generateRepoURL(RepoOf(locked))

flakeURL(locked) ==
  generateRepoURL(RepoOf(locked))
    \o VersionSuffix(safeGetString(locked, "rev"), safeGetString(locked, "narHash"))

\* everything from the last "?" on cut off
ExtractRepoIdentity_lastQuery(u) ==
  LET cand == {i \in 1..Len(u) : <<u[i]>> = Q}
  IN IF cand = {} THEN u ELSE Prefix(u, Max(cand) - 1)

ExtractRepoIdentity(u) ==
  IF Contains(u, QHost)
  THEN LET hostIdx == Index(u, QHost)
           afterHost == Suffix(u, hostIdx + Len(QHost))
           versionIdx == Index(afterHost, Q)
       IN IF versionIdx # -1
          THEN Prefix(u, hostIdx + Len(QHost) + versionIdx)
          ELSE u
  ELSE LET idx == Index(u, Q)
       IN IF idx # -1 THEN Prefix(u, idx) ELSE u

\* --------------------------------------------------------- lock graph
\* Go map helpers: a map is a function; the empty map is the empty function
EmptyMap == << >>

\* the function f written out as a table, each value computed once
Tabulated(f) == f @@ EmptyMap

\* m[k] = append(m[k], v), skipping a value the list already holds
MapAppend_dedup(m, k, v) ==
  IF k \in DOMAIN m
  THEN IF \E i \in DOMAIN m[k] : m[k][i] = v THEN m ELSE [m EXCEPT ![k] = Append(@, v)]
  ELSE m @@ (k :> <<v>>)

\* m[k] = []string{v}: the list replaced instead of extended
MapAppend_overwrite(m, k, v) ==
  IF k \in DOMAIN m THEN [m EXCEPT ![k] = <<v>>] ELSE m @@ (k :> <<v>>)

\* m[k] = append(m[k], v)
MapAppend(m, k, v) ==
  IF k \in DOMAIN m THEN [m EXCEPT ![k] = Append(@, v)] ELSE m @@ (k :> <<v>>)

\* all orders in which a Go range loop may visit the keys S of a map
SeqPerms(S) ==
  {s \in [1..Cardinality(S) -> S] : \A i, j \in 1..Cardinality(S) : i # j => s[i] # s[j]}

\* a Locked struct (types.go), every string field present
Locked(type, owner, repo, host, u, path, rev, narHash) ==
  [Type |-> type, Owner |-> owner, Repo |-> repo, Host |-> host,
   URL |-> u, Path |-> path, Rev |-> rev, NarHash |-> narHash]

ZeroLocked == Locked(Empty, Empty, Empty, Empty, Empty, Empty, Empty, Empty)

\* an Original struct
Original(type, owner, repo, ref) ==
  [Type |-> type, Owner |-> owner, Repo |-> repo, Ref |-> ref]

ZeroOriginal == Original(Empty, Empty, Empty, Empty)

\* values of the inputs map (map[string]any): a string, a list, anything else
RefString(name) == [kind |-> "string", name |-> name, elems |-> << >>]
RefList(elems) == [kind |-> "list", name |-> "", elems |-> elems]
RefOther == [kind |-> "other", name |-> "", elems |-> << >>]
\* elements of a list reference: a string or a value of another type
ElemString(name) == [str |-> TRUE, name |-> name]
ElemOther == [str |-> FALSE, name |-> ""]

\* a Node struct: Locked and Original are pointers, Inputs a map (nil or not)
Node(hasLocked, locked, hasOriginal, original, inputsNil, inputs) ==
  [hasLocked |-> hasLocked, locked |-> locked,
   hasOriginal |-> hasOriginal, original |-> original,
   inputsNil |-> inputsNil, inputs |-> inputs]

\* the map[string]any AnalyzeFlake builds from node.Locked
lockedMap(locked) ==
  [type |-> locked.Type, owner |-> locked.Owner, repo |-> locked.Repo,
   host |-> locked.Host, url |-> locked.URL, path |-> locked.Path,
   rev |-> locked.Rev, narHash |-> locked.NarHash]

\* first loop of AnalyzeFlake with the checks on node.Locked and url dropped
nodeToURL_unchecked(nodes) ==
  [n \in DOMAIN nodes |->
     IF nodes[n].hasLocked THEN flakeURL(lockedMap(nodes[n].locked)) ELSE Empty]

\* first loop of AnalyzeFlake: node name -> version-qualified URL
nodeToURL(nodes) ==
  [n \in {m \in DOMAIN nodes :
            /\ nodes[m].hasLocked
            /\ flakeURL(lockedMap(nodes[m].locked)) # Empty} |->
     flakeURL(lockedMap(nodes[n].locked))]

\* the target names one inputs value names, in the order the code visits them
TargetsOf(ref) ==
  IF ref.kind = "string" THEN <<ref.name>>
  ELSE IF ref.kind = "list"
  THEN LET strs == SelectSeq(ref.elems, LAMBDA e : e.str)
       IN [i \in 1..Len(strs) |-> strs[i].name]
  ELSE << >>

\* an alias already in the Deps list not appended again
RECURSIVE VisitTargets_dedupDeps(_, _, _, _)
VisitTargets_dedupDeps(rel, n2u, nodeName, targets) ==
  IF targets = << >> THEN rel
  ELSE LET t == Head(targets)
           rel1 == IF t \in DOMAIN n2u
                   THEN [Deps |-> MapAppend_dedup(rel.Deps, n2u[t], nodeName),
                         ReverseDeps |-> MapAppend(rel.ReverseDeps, t, nodeName)]
                   ELSE rel
       IN VisitTargets_dedupDeps(rel1, n2u, nodeName, Tail(targets))

RECURSIVE VisitTargets(_, _, _, _)
VisitTargets(rel, n2u, nodeName, targets) ==
  IF targets = << >> THEN rel
  ELSE LET t == Head(targets)
           rel1 == IF t \in DOMAIN n2u
                   THEN [Deps |-> MapAppend(rel.Deps, n2u[t], nodeName),
                         ReverseDeps |-> MapAppend(rel.ReverseDeps, t, nodeName)]
                   ELSE rel
       IN VisitTargets(rel1, n2u, nodeName, Tail(targets))

RECURSIVE VisitInputs(_, _, _, _, _)
VisitInputs(rel, n2u, nodeName, inputs, order) ==
  IF order = << >> THEN rel
  ELSE VisitInputs(VisitTargets(rel, n2u, nodeName, TargetsOf(inputs[Head(order)])),
                   n2u, nodeName, inputs, Tail(order))

RECURSIVE VisitNodes(_, _, _, _, _)
VisitNodes(rel, n2u, nodes, nodeOrder, inputOrder) ==
  IF nodeOrder = << >> THEN rel
  ELSE LET n == Head(nodeOrder)
           rel1 == IF nodes[n].inputsNil THEN rel
                   ELSE VisitInputs(rel, n2u, n, nodes[n].inputs, inputOrder[n])
       IN VisitNodes(rel1, n2u, nodes, Tail(nodeOrder), inputOrder)

\* AnalyzeFlake, for one order of the range loops over Nodes and over Inputs
AnalyzeFlake(lock, nodeOrder, inputOrder) ==
  VisitNodes([Deps |-> EmptyMap, ReverseDeps |-> EmptyMap],
             nodeToURL(lock.Nodes), lock.Nodes, nodeOrder, inputOrder)

\* the orders the range loops of AnalyzeFlake can take on a lock
NodeOrders(lock) == SeqPerms(DOMAIN lock.Nodes)
InputOrders(lock) ==
  {o \in [DOMAIN lock.Nodes ->
            UNION {SeqPerms(DOMAIN lock.Nodes[n].inputs) : n \in DOMAIN lock.Nodes}] :
     \A n \in DOMAIN lock.Nodes : o[n] \in SeqPerms(DOMAIN lock.Nodes[n].inputs)}

\* ---------------------------------------------------------- output.go
RECURSIVE GroupByRepo(_, _)
GroupByRepo(groups, urls) ==
  IF urls = << >> THEN groups
  ELSE GroupByRepo(MapAppend(groups, ExtractRepoIdentity(Head(urls)), Head(urls)),
                   Tail(urls))

\* the filter of DetectDuplicatesByRepo, keeping every group
KeepGroup_any(urls) == Len(urls) > 0

\* the filter of DetectDuplicatesByRepo: only groups of several versions
KeepGroup(urls) == Len(urls) > 1

\* DetectDuplicatesByRepo, for one order of the range loop over deps
DetectDuplicatesByRepo(depsMap, keyOrder) ==
  LET repoGroups == GroupByRepo(EmptyMap, keyOrder)
  IN [r \in {g \in DOMAIN repoGroups : KeepGroup(repoGroups[g])} |-> repoGroups[r]]

AnyOrder(S) == CHOOSE s \in SeqPerms(S) : TRUE

ShouldFailOnDuplicates(failFlag, depsMap) ==
  IF ~failFlag THEN FALSE
  ELSE Cardinality(DOMAIN DetectDuplicatesByRepo(depsMap, AnyOrder(DOMAIN depsMap))) > 0

\* ------------------------------------------------------ cmd: runFlint
\* the exit decision of runFlint: an error when the flag is set and some
\* Deps entry has more than one alias
runFlintFails(failFlag, depsMap) ==
  failFlag /\ \E u \in DOMAIN depsMap : Len(depsMap[u]) > 1

\* ------------------------------------------------------------- state
VARIABLES
  d, url, ident, upc,
  flakeLock, outputFormatValid, failIfMultipleVersions,
  deps, reverseDeps, duplicates, exitStatus, shouldFail, apc,
  cpc, wg, mu, updates, results, err, wpc, wupdate, wlocal, wlook,
  upstream

urlVars == <<d, url, ident, upc>>
analysisVars == <<flakeLock, outputFormatValid, failIfMultipleVersions,
                  deps, reverseDeps, duplicates, exitStatus, shouldFail, apc>>
updateVars == <<cpc, wg, mu, updates, results, err, wpc, wupdate, wlocal, wlook,
                upstream>>
vars == <<urlVars, analysisVars, updateVars>>

\* the idle lock: no nodes at all
NoLock == [Nodes |-> EmptyMap, Root |-> "root"]

UrlIdle == d = ZeroLocked /\ url = Empty /\ ident = Empty /\ upc = "idle"

AnalysisIdle ==
  /\ flakeLock = NoLock /\ outputFormatValid = TRUE
  /\ failIfMultipleVersions = FALSE
  /\ deps = EmptyMap /\ reverseDeps = EmptyMap /\ duplicates = EmptyMap
  /\ exitStatus = "none" /\ shouldFail = FALSE /\ apc = "idle"

UpdateIdle ==
  /\ cpc = "idle" /\ wg = 0 /\ mu = "" /\ updates = << >> /\ results = << >>
  /\ err = "" /\ wpc = EmptyMap /\ wupdate = EmptyMap /\ wlocal = EmptyMap
  /\ wlook = EmptyMap /\ upstream = EmptyMap

\* ------------------------------------------- identity URLs (SpecURL)
\* field values of the locked descriptors tried, some with '?' and '&'
Types == {TGithub, TGitlab, TSourcehut, TGit, THg, TTarball, TPath, TIndirect, Empty}
Owners == {<<"o">>, <<"o","?","p">>}
Repos == {<<"r">>}
Hosts == {Empty, <<"h">>, <<"h","?","x">>}
URLs == {<<"u">>, <<"u","?","d">>, <<"u","?","h","o","s","t","=","h">>}
Paths == {<<"/","p">>, <<"/","?">>}
Revs == {Empty, <<"a">>, <<"b">>, <<"a","?","h","o","s","t","=","h">>,
         <<"a","&","n","a","r","H","a","s","h","=","n">>}
NarHashes == {Empty, <<"n">>}

Descriptors ==
  {Locked(t, o, r, h, u, p, rv, nh) :
     t \in Types, o \in Owners, r \in Repos, h \in Hosts, u \in URLs,
     p \in Paths, rv \in Revs, nh \in NarHashes}

InitURL ==
  /\ d \in Descriptors /\ url = Empty /\ ident = Empty /\ upc = "input"
  /\ AnalysisIdle /\ UpdateIdle

\* flakeURL applied to the locked descriptor
BuildURL ==
  /\ upc = "input"
  /\ url' = flakeURL(lockedMap(d))
  /\ upc' = "built"
  /\ UNCHANGED <<d, ident, analysisVars, updateVars>>

\* ExtractRepoIdentity applied to the version-qualified URL
ExtractIdentity ==
  /\ upc = "built"
  /\ ident' = ExtractRepoIdentity(url)
  /\ upc' = "extracted"
  /\ UNCHANGED <<d, url, analysisVars, updateVars>>

NextURL == BuildURL \/ ExtractIdentity

SpecURL == InitURL /\ [][NextURL]_vars

\* identity URL of a locked descriptor, as generateRepoURL builds it
IdentityOf(locked) == generateRepoURL(RepoOf(lockedMap(locked)))

\* C1: round trip -- for every locked descriptor with a non-empty type and
\* arbitrary strings in the other fields, ExtractRepoIdentity of the URL
\* flakeURL builds is exactly the identity URL generateRepoURL builds.
C1_RoundTrip ==
  (upc = "extracted" /\ d.Type # Empty) => ident = IdentityOf(d)

\* number of places where sub occurs in s
Occurrences(s, sub) ==
  Cardinality({i \in 0..(Len(s) - Len(sub)) : SubSeq(s, i + 1, i + Len(sub)) = sub})

\* the portion of the identity URL that follows "<type>:"
AfterType(l) == Suffix(IdentityOf(l), Len(l.Type) + 1)

\* C15: generateRepoURL returns "<type>:<owner>/<repo>" for github, gitlab
\* and sourcehut, with "?host=<host>" appended exactly once if and only if
\* host is non-empty; "<type>:<url>" for git, hg and tarball;
\* "<type>:<path>" for path; the empty string for every other type.
C15_IdentityByType ==
  upc # "input" =>
    /\ Prefix(url, Len(IdentityOf(d))) = IdentityOf(d)
    /\ IF d.Type \in {TGithub, TGitlab, TSourcehut}
       THEN /\ Prefix(IdentityOf(d), Len(d.Type) + 1) = d.Type \o Colon
            /\ Prefix(AfterType(d), Len(d.Owner) + 1 + Len(d.Repo))
                 = d.Owner \o Slash \o d.Repo
            /\ LET rest == Suffix(AfterType(d), Len(d.Owner) + 1 + Len(d.Repo))
               IN IF d.Host # Empty
                  THEN rest = QHost \o d.Host
                  ELSE rest = Empty
            /\ d.Host # Empty =>
                 Occurrences(IdentityOf(d), QHost)
                   = 1 + Occurrences(d.Owner \o Slash \o d.Repo, QHost)
                       + Occurrences(d.Host, QHost)
       ELSE IF d.Type \in {TGit, THg, TTarball}
       THEN IdentityOf(d) = d.Type \o Colon \o d.URL
       ELSE IF d.Type = TPath
       THEN IdentityOf(d) = d.Type \o Colon \o d.Path
       ELSE IdentityOf(d) = Empty

\* a gitlab descriptor with a host, and its URL built
C15_Witness ==
  /\ upc = "built" /\ d.Type = TGitlab /\ d.Host = <<"h">>
  /\ d.Owner = <<"o">> /\ d.Rev = Empty /\ d.NarHash = Empty
  /\ url = <<"g","i","t","l","a","b",":","o","/","r","?","h","o","s","t","=","h">>

\* C16: the version-qualified URL (the Deps key) is the identity URL
\* followed by "?rev=<rev>" when rev is non-empty and "narHash=<narHash>"
\* when narHash is non-empty, the latter joined with "&" if rev is present
\* and with "?" otherwise; with both empty it equals the identity URL; an
\* identity ending in "?host=<host>" still gets the version part behind a
\* second "?".
C16_VersionQualification ==
  upc # "input" =>
    LET id == IdentityOf(d)
        rest == Suffix(url, Len(id))
    IN /\ Prefix(url, Len(id)) = id
       /\ IF d.Rev = Empty /\ d.NarHash = Empty THEN url = id
          ELSE IF d.NarHash = Empty THEN rest = Q \o RevEq \o d.Rev
          ELSE IF d.Rev = Empty THEN rest = Q \o NarHashEq \o d.NarHash
          ELSE rest = Q \o RevEq \o d.Rev \o Amp \o NarHashEq \o d.NarHash
       /\ (/\ d.Type \in {TGithub, TGitlab, TSourcehut} /\ d.Host # Empty
           /\ (d.Rev # Empty \/ d.NarHash # Empty))
            => /\ Suffix(id, Len(id) - Len(d.Host) - Len(QHost)) = QHost \o d.Host
               /\ Prefix(rest, 1) = Q

\* a gitlab descriptor with host, rev and narHash: two question marks
C16_Witness ==
  /\ upc = "built" /\ d.Type = TGitlab /\ d.Host = <<"h">>
  /\ url = <<"g","i","t","l","a","b",":","o","/","r","?","h","o","s","t","=","h",
             "?","r","e","v","=","a","&","n","a","r","H","a","s","h","=","n">>

\* ------------------------- ExtractRepoIdentity alone (SpecIdentity)
\* the strings handed to ExtractRepoIdentity: up to MaxPieces pieces, among
\* them the two separators the function searches for
Pieces == {<<"a">>, <<"h">>, Q, QHost, Amp, RevEq}

RECURSIVE Concat(_)
Concat(ps) == IF ps = << >> THEN Empty ELSE Head(ps) \o Concat(Tail(ps))

Strings == UNION {{Concat(ps) : ps \in [1..n -> Pieces]} : n \in 0..MaxPieces}

InitIdentity ==
  /\ d = ZeroLocked /\ url \in Strings /\ ident = Empty /\ upc = "given"
  /\ AnalysisIdle /\ UpdateIdle

\* ExtractRepoIdentity applied to the string given
ExtractGiven ==
  /\ upc = "given"
  /\ ident' = ExtractRepoIdentity(url)
  /\ upc' = "once"
  /\ UNCHANGED <<d, url, analysisVars, updateVars>>

\* ExtractRepoIdentity applied to its own result
ExtractAgain ==
  /\ upc = "once"
  /\ url' = ident
  /\ ident' = ExtractRepoIdentity(ident)
  /\ upc' = "twice"
  /\ UNCHANGED <<d, analysisVars, updateVars>>

NextIdentity == ExtractGiven \/ ExtractAgain

SpecIdentity == InitIdentity /\ [][NextIdentity]_vars

\* C28: ExtractRepoIdentity only truncates and is idempotent -- its result
\* is a prefix of the string given, a string without "?" is returned
\* unchanged, and applied to its own result it returns that result.
C28_IdempotentPrefix ==
  /\ upc = "once" =>
       /\ HasPrefix(url, ident)
       /\ ~Contains(url, Q) => ident = url
  /\ upc = "twice" => ident = url

\* a string with a host part and a second "?", cut at the second
C28_Witness ==
  /\ upc = "once"
  /\ url = QHost \o <<"h">> \o Q /\ ident = QHost \o <<"h">>

\* ------------------------------------- graph analysis (SpecAnalysis)
\* locked descriptors given to the nodes of the analysed graphs
Lgh(rev, narHash) ==
  Locked(TGithub, <<"o">>, <<"r">>, Empty, Empty, Empty, rev, narHash)
LghHost(rev, narHash) ==
  Locked(TGithub, <<"o">>, <<"r">>, <<"h">>, Empty, Empty, rev, narHash)
Lgit(u, rev) == Locked(TGit, Empty, Empty, Empty, u, Empty, rev, Empty)
Ltarball(u, rev) == Locked(TTarball, Empty, Empty, Empty, u, Empty, rev, Empty)
Lindirect(rev) == Locked(TIndirect, Empty, Empty, Empty, Empty, Empty, rev, Empty)

LockedPoolA ==
  {Lgh(<<"a">>, Empty), LghHost(<<"a">>, Empty), Lgit(<<"u">>, <<"a">>),
   Ltarball(<<"u","?","d">>, <<"a">>), Lindirect(<<"a">>), Lindirect(Empty),
   Lgh(<<"a","&","n","a","r","H","a","s","h","=","n">>, Empty)}

LockedPoolB ==
  {Lgh(<<"b">>, Empty), Lgh(<<"a">>, <<"n">>), LghHost(<<"b">>, Empty),
   Lgit(<<"v">>, <<"b">>), Ltarball(<<"u","?","d">>, <<"b">>)}

LockedPoolRoot == {Lgit(<<"w">>, <<"c">>)}

\* names an input may point to: the nodes and one name that is no node
TargetNames == {"root", "a", "b", "missing"}

ListElems == {ElemString("b"), ElemOther}
ListRefs ==
  UNION {{RefList(e) : e \in [1..n -> ListElems]} : n \in 1..MaxFollows}
Refs == {RefString(t) : t \in TargetNames} \cup ListRefs \cup {RefOther}

RootInputsPool ==
  {EmptyMap} \cup {("i1" :> r) : r \in Refs}
    \cup {("i1" :> RefString(s)) @@ ("i2" :> RefString(t)) :
            s \in {"a", "b"}, t \in {"a", "root"}}
InputsPoolA == {("i1" :> RefString("b"))}
InputsPoolB == {("i1" :> RefString("a"))}

\* the nodes with the given locked descriptor and nil inputs or inputs of pool
WithInputs(pool, hasLocked, locked) ==
  {Node(hasLocked, locked, FALSE, ZeroOriginal, TRUE, EmptyMap)}
    \cup {Node(hasLocked, locked, FALSE, ZeroOriginal, FALSE, m) : m \in pool}

NodesA ==
  WithInputs(InputsPoolA, FALSE, ZeroLocked)
    \cup UNION {WithInputs(InputsPoolA, TRUE, l) : l \in LockedPoolA}
NodesB == UNION {WithInputs(InputsPoolB, TRUE, l) : l \in LockedPoolB}
NodesRoot ==
  WithInputs(RootInputsPool, FALSE, ZeroLocked)
    \cup UNION {WithInputs(RootInputsPool, TRUE, l) : l \in LockedPoolRoot}

Graphs ==
  {[Nodes |-> ("root" :> r) @@ ("a" :> a) @@ ("b" :> b), Root |-> "root"] :
     r \in NodesRoot, a \in NodesA, b \in NodesB}

InitAnalysis ==
  /\ flakeLock \in Graphs
  /\ outputFormatValid = TRUE /\ failIfMultipleVersions = FALSE
  /\ deps = EmptyMap /\ reverseDeps = EmptyMap /\ duplicates = EmptyMap
  /\ exitStatus = "none" /\ shouldFail = FALSE /\ apc = "loaded"
  /\ UrlIdle /\ UpdateIdle

\* runFlint: analyse the lock, print the dependencies (which validates the
\* output format and detects the duplicates), decide the exit status
RunFlint ==
  /\ apc = "loaded"
  /\ \E flag \in BOOLEAN, valid \in BOOLEAN,
        no \in NodeOrders(flakeLock), io \in InputOrders(flakeLock) :
       LET rel == AnalyzeFlake(flakeLock, no, io)
       IN /\ failIfMultipleVersions' = flag
          /\ outputFormatValid' = valid
          /\ deps' = rel.Deps
          /\ reverseDeps' = rel.ReverseDeps
          /\ IF valid
             THEN /\ \E ko \in SeqPerms(DOMAIN rel.Deps) :
                       duplicates' = DetectDuplicatesByRepo(rel.Deps, ko)
                  /\ exitStatus' = IF runFlintFails(flag, rel.Deps)
                                   THEN "duplicates" ELSE "ok"
             ELSE /\ duplicates' = EmptyMap
                  /\ exitStatus' = "format"
  /\ apc' = "exited"
  /\ UNCHANGED <<flakeLock, shouldFail, urlVars, updateVars>>

\* output.ShouldFailOnDuplicates on the analysed dependencies
CallShouldFailOnDuplicates ==
  /\ apc = "exited"
  /\ shouldFail' = ShouldFailOnDuplicates(failIfMultipleVersions, deps)
  /\ apc' = "judged"
  /\ UNCHANGED <<flakeLock, outputFormatValid, failIfMultipleVersions,
                 deps, reverseDeps, duplicates, exitStatus, urlVars, updateVars>>

NextAnalysis == RunFlint \/ CallShouldFailOnDuplicates

SpecAnalysis == InitAnalysis /\ [][NextAnalysis]_vars

Analysed == apc \in {"exited", "judged"}

\* ---------------------------------------------- properties of the analysis
GraphNodes == DOMAIN flakeLock.Nodes

\* number of positions of seq holding x
CountIn(seq, x) == Cardinality({i \in DOMAIN seq : seq[i] = x})

RECURSIVE SumOver(_, _)
SumOver(f, S) ==
  IF S = {} THEN 0
  ELSE LET x == CHOOSE y \in S : TRUE IN f[x] + SumOver(f, S \ {x})

\* how many times node n names target t in its inputs (lists flattened)
Occ(n, t) ==
  IF flakeLock.Nodes[n].inputsNil THEN 0
  ELSE LET ins == flakeLock.Nodes[n].inputs
       IN SumOver([i \in DOMAIN ins |-> CountIn(TargetsOf(ins[i]), t)], DOMAIN ins)

Referenced(t) == \E n \in GraphNodes : Occ(n, t) > 0

HasLocked(t) == t \in GraphNodes /\ flakeLock.Nodes[t].hasLocked

VersionURLOf(t) == flakeURL(lockedMap(flakeLock.Nodes[t].locked))

NodeIdentity(t) == IdentityOf(flakeLock.Nodes[t].locked)

\* t is a locked node with a non-empty version-qualified URL
Resolvable(t) == HasLocked(t) /\ VersionURLOf(t) # Empty

TotalLen(m) == SumOver([k \in DOMAIN m |-> Len(m[k])], DOMAIN m)

\* C2: every Deps key is the version-qualified URL of a node with a
\* non-empty identity URL; a locked node of unknown type (identity URL "")
\* gives rise to no Deps key and no ReverseDeps key.
C2_DepsOnlyIdentified ==
  Analysed =>
    /\ \A u \in DOMAIN deps :
         \E n \in GraphNodes :
           HasLocked(n) /\ VersionURLOf(n) = u /\ NodeIdentity(n) # Empty
    /\ \A n \in GraphNodes :
         (HasLocked(n) /\ NodeIdentity(n) = Empty) =>
           (n \notin DOMAIN reverseDeps /\ VersionURLOf(n) \notin DOMAIN deps)

SameRepoFields(n, m) ==
  LET ln == flakeLock.Nodes[n].locked
      lm == flakeLock.Nodes[m].locked
  IN ln.Type = lm.Type /\ ln.Owner = lm.Owner /\ ln.Repo = lm.Repo /\ ln.Host = lm.Host

DifferentVersion(n, m) ==
  LET ln == flakeLock.Nodes[n].locked
      lm == flakeLock.Nodes[m].locked
  IN ln.Rev # lm.Rev \/ ln.NarHash # lm.NarHash

SeparateKeysSameIdentity(n, m) ==
  /\ VersionURLOf(n) \in DOMAIN deps
  /\ VersionURLOf(m) \in DOMAIN deps
  /\ VersionURLOf(n) # VersionURLOf(m)
  /\ ExtractRepoIdentity(VersionURLOf(n)) = ExtractRepoIdentity(VersionURLOf(m))

\* C3 (as stated): two referenced nodes with identical {type, owner, repo,
\* host} and different rev or narHash get two different Deps keys with the
\* same ExtractRepoIdentity.
C3_SameFieldsSeparateKeys ==
  Analysed =>
    \A n, m \in GraphNodes :
      (/\ n # m /\ HasLocked(n) /\ HasLocked(m)
       /\ Referenced(n) /\ Referenced(m)
       /\ SameRepoFields(n, m) /\ DifferentVersion(n, m))
      => SeparateKeysSameIdentity(n, m)

NoSeparator(str) == ~Contains(str, Q) /\ ~Contains(str, Amp)

PlainVersion(n) ==
  NoSeparator(flakeLock.Nodes[n].locked.Rev)
    /\ NoSeparator(flakeLock.Nodes[n].locked.NarHash)

SameRepo(n, m) ==
  /\ SameRepoFields(n, m)
  /\ flakeLock.Nodes[n].locked.URL = flakeLock.Nodes[m].locked.URL
  /\ flakeLock.Nodes[n].locked.Path = flakeLock.Nodes[m].locked.Path
  /\ NodeIdentity(n) # Empty

C3_Case(n, m) ==
  /\ n # m /\ HasLocked(n) /\ HasLocked(m)
  /\ Referenced(n) /\ Referenced(m)
  /\ SameRepo(n, m) /\ DifferentVersion(n, m)
  /\ PlainVersion(n) /\ PlainVersion(m)

\* C3 (amended): two referenced nodes of a supported type with identical
\* {type, owner, repo, host, url, path} and different rev or narHash, neither
\* containing '?' or '&', get two different Deps keys with the same
\* ExtractRepoIdentity.
C3_SameRepoSeparateKeys ==
  Analysed =>
    \A n, m \in GraphNodes : C3_Case(n, m) => SeparateKeysSameIdentity(n, m)

C3_Witness ==
  /\ Analysed
  /\ \E n, m \in GraphNodes : C3_Case(n, m) /\ SeparateKeysSameIdentity(n, m)

\* C4: dangling references are dropped -- a target that is no node, or a
\* node without locked descriptor, creates no key and no list element; every
\* name in a Deps or ReverseDeps list is a node and every ReverseDeps key is
\* a node with a locked descriptor.
C4_DanglingDropped ==
  Analysed =>
    /\ \A u \in DOMAIN deps : \A i \in DOMAIN deps[u] : deps[u][i] \in GraphNodes
    /\ \A t \in DOMAIN reverseDeps :
         /\ HasLocked(t)
         /\ \A i \in DOMAIN reverseDeps[t] : reverseDeps[t][i] \in GraphNodes
    /\ LET resolved ==
             SumOver([n \in GraphNodes |->
                        SumOver([t \in GraphNodes |->
                                   IF Resolvable(t) THEN Occ(n, t) ELSE 0],
                                GraphNodes)],
                     GraphNodes)
       IN TotalLen(deps) = resolved /\ TotalLen(reverseDeps) = resolved

C4_Witness ==
  /\ Analysed
  /\ \E n \in GraphNodes : Occ(n, "missing") > 0
  /\ \E n, t \in GraphNodes : Occ(n, t) > 0 /\ ~HasLocked(t)
  /\ deps # EmptyMap

\* C5: direct referrers only -- node N occurs in ReverseDeps[T] once per
\* input entry of N naming T, and in Deps[u] once per input entry of N
\* naming a node whose URL is u; nothing else is inserted, and a key exists
\* only when somebody references it.
C5_DirectReferrersOnly ==
  Analysed =>
    LET vurl == Tabulated([t \in GraphNodes |->
                  IF HasLocked(t) THEN VersionURLOf(t) ELSE Empty])
        res == {t \in GraphNodes : vurl[t] # Empty}
        occ == Tabulated([p \in GraphNodes \X res |-> Occ(p[1], p[2])])
    IN /\ \A t \in GraphNodes \cup TargetNames \cup DOMAIN reverseDeps :
            LET expected == Tabulated([n \in GraphNodes |->
                               IF t \in res THEN occ[<<n, t>>] ELSE 0])
            IN IF \A n \in GraphNodes : expected[n] = 0
               THEN t \notin DOMAIN reverseDeps
               ELSE /\ t \in DOMAIN reverseDeps
                    /\ \A n \in GraphNodes : CountIn(reverseDeps[t], n) = expected[n]
                    /\ Len(reverseDeps[t]) = SumOver(expected, GraphNodes)
       /\ \A u \in DOMAIN deps \cup {vurl[t] : t \in res} :
            LET expected == Tabulated([n \in GraphNodes |->
                               SumOver([t \in GraphNodes |->
                                          IF t \in res /\ vurl[t] = u
                                          THEN occ[<<n, t>>] ELSE 0],
                                       GraphNodes)])
            IN IF \A n \in GraphNodes : expected[n] = 0
               THEN u \notin DOMAIN deps
               ELSE /\ u \in DOMAIN deps
                    /\ \A n \in GraphNodes : CountIn(deps[u], n) = expected[n]
                    /\ Len(deps[u]) = SumOver(expected, GraphNodes)

\* the chain root -> a -> b with b locked, and the locked root unreferenced
C5_Witness ==
  /\ Analysed
  /\ Occ("root", "a") = 1 /\ Occ("root", "b") = 0
  /\ Occ("a", "b") = 1 /\ Occ("b", "a") = 0
  /\ Resolvable("a") /\ Resolvable("b") /\ Resolvable("root")
  /\ VersionURLOf("a") # VersionURLOf("b")
  /\ deps[VersionURLOf("b")] = <<"a">>
  /\ VersionURLOf("root") \notin DOMAIN deps

VersionsOf(r) == {k \in DOMAIN deps : ExtractRepoIdentity(k) = r}

\* a second run of AnalyzeFlake on the same lock, in one fixed order
FixedNodeOrder == AnyOrder(DOMAIN flakeLock.Nodes)
FixedInputOrder ==
  [n \in DOMAIN flakeLock.Nodes |->
     IF flakeLock.Nodes[n].inputsNil THEN << >>
     ELSE AnyOrder(DOMAIN flakeLock.Nodes[n].inputs)]
SecondRun == AnalyzeFlake(flakeLock, FixedNodeOrder, FixedInputOrder)

\* the two lists hold the same elements the same number of times
SameBag(s, t) ==
  /\ Len(s) = Len(t)
  /\ \A i \in DOMAIN s : CountIn(s, s[i]) = CountIn(t, s[i])

\* same keys, and under every key the same multiset of aliases
SameUpToOrder(m1, m2) ==
  DOMAIN m1 = DOMAIN m2 /\ \A k \in DOMAIN m1 : SameBag(m1[k], m2[k])

\* C17: traversal-order independence -- the Deps and ReverseDeps of a run
\* of AnalyzeFlake, whatever order it visited nodes and inputs in, have the
\* same keys and the same multiset of aliases under every key as those of
\* a run on the same lock in another order; only the order in the lists
\* may differ.
C17_OrderIndependence ==
  Analysed =>
    LET second == SecondRun
    IN /\ SameUpToOrder(deps, second.Deps)
       /\ SameUpToOrder(reverseDeps, second.ReverseDeps)

\* two runs whose lists under some key are in different orders
C17_Witness ==
  /\ Analysed
  /\ \E k \in DOMAIN deps :
       /\ k \in DOMAIN SecondRun.Deps
       /\ Len(deps[k]) >= 2
       /\ deps[k] # SecondRun.Deps[k]
       /\ SameBag(deps[k], SecondRun.Deps[k])

\* C27: Deps and ReverseDeps are two views of the same references -- for
\* every version-qualified URL u the aliases in Deps[u] are, as a multiset,
\* those of ReverseDeps[T] taken together over the nodes T whose
\* version-qualified URL is u (an absent key counting as an empty list);
\* so both maps hold the same number of entries; no key of either map has
\* an empty list; and a node naming a target in k input entries stands k
\* times in the target's list.
C27_TwoViews ==
  Analysed =>
    LET locked == {t \in GraphNodes : HasLocked(t)}
        vurl == Tabulated([t \in locked |-> VersionURLOf(t)])
        rev == Tabulated([t \in locked |->
                 IF t \in DOMAIN reverseDeps THEN reverseDeps[t] ELSE << >>])
    IN /\ DOMAIN reverseDeps \subseteq locked
       /\ \A u \in DOMAIN deps \cup {vurl[t] : t \in locked} :
            LET views == {t \in locked : vurl[t] = u}
                list == IF u \in DOMAIN deps THEN deps[u] ELSE << >>
            IN /\ \A n \in GraphNodes :
                    CountIn(list, n)
                      = SumOver([t \in views |-> CountIn(rev[t], n)], views)
               /\ Len(list) = SumOver([t \in views |-> Len(rev[t])], views)
       /\ TotalLen(deps) = TotalLen(reverseDeps)
       /\ \A u \in DOMAIN deps : deps[u] # << >>
       /\ \A t \in DOMAIN reverseDeps :
            /\ reverseDeps[t] # << >>
            /\ \A n \in GraphNodes : CountIn(reverseDeps[t], n) = Occ(n, t)

\* nodes a and b have one version-qualified URL; the root names each of
\* them once, and they name each other
C27_Witness ==
  /\ Analysed
  /\ HasLocked("a") /\ HasLocked("b") /\ VersionURLOf("a") = VersionURLOf("b")
  /\ VersionURLOf("a") \in DOMAIN deps
  /\ Len(deps[VersionURLOf("a")]) = 4
  /\ CountIn(deps[VersionURLOf("a")], "root") = 2
  /\ {"a", "b"} \subseteq DOMAIN reverseDeps
  /\ Len(reverseDeps["a"]) = 2 /\ Len(reverseDeps["b"]) = 2

\* C6: DetectDuplicatesByRepo has a key r iff at least two distinct Deps
\* keys have ExtractRepoIdentity r, and the list under r holds each of them
\* exactly once and nothing else.
C6_ExactDuplicates ==
  (Analysed /\ outputFormatValid) =>
    /\ \A r \in DOMAIN duplicates \cup {ExtractRepoIdentity(k) : k \in DOMAIN deps} :
         r \in DOMAIN duplicates <=> Cardinality(VersionsOf(r)) >= 2
    /\ \A r \in DOMAIN duplicates :
         /\ \A k \in VersionsOf(r) : CountIn(duplicates[r], k) = 1
         /\ \A i \in DOMAIN duplicates[r] : duplicates[r][i] \in VersionsOf(r)

C6_Witness ==
  /\ Analysed /\ outputFormatValid
  /\ duplicates # EmptyMap
  /\ \E k \in DOMAIN deps : ExtractRepoIdentity(k) \notin DOMAIN duplicates

HasMultipleVersions ==
  \E k1, k2 \in DOMAIN deps :
    k1 # k2 /\ ExtractRepoIdentity(k1) = ExtractRepoIdentity(k2)

\* C7: the run fails because of duplicates iff --fail-if-multiple-versions is
\* set and some repository is present in more than one distinct version.
C7_ExitOnDuplicates ==
  (Analysed /\ outputFormatValid) =>
    ((exitStatus = "duplicates") <=> (failIfMultipleVersions /\ HasMultipleVersions))

\* ----------------------------------------------------------- updates.go
DotCom == <<".","c","o","m">>
CommitHashLen == 40
HexLower == {"0","1","2","3","4","5","6","7","8","9","a","b","c","d","e","f"}

\* buildFlakeURL of a *Locked (nil when hasLocked is false)
buildFlakeURL(hasLocked, locked) ==
  IF ~hasLocked THEN Empty
  ELSE IF locked.Type \in {TGithub, TGitlab, TSourcehut}
  THEN LET u == locked.Type \o Colon \o locked.Owner \o Slash \o locked.Repo
       IN IF /\ locked.Host # Empty
             /\ locked.Host # TGithub \o DotCom
             /\ locked.Host # TGitlab \o DotCom
          THEN u \o QHost \o locked.Host
          ELSE u
  ELSE IF locked.Type = TGit THEN locked.URL
  ELSE IF locked.Type = TPath THEN locked.Path
  ELSE IF locked.Type = TTarball THEN locked.URL
  ELSE Empty

\* isCommitHash accepting uppercase hexadecimal digits as well
isCommitHash_anyCase(str) ==
  Len(str) = CommitHashLen
    /\ \A i \in DOMAIN str : str[i] \in HexLower \cup {"A", "B", "C", "D", "E", "F"}

isCommitHash(str) ==
  Len(str) = CommitHashLen /\ \A i \in DOMAIN str : str[i] \in HexLower

\* an UpdateStatus value
UpdateStatus(name, currentRev, currentURL, latestRev, latestURL, isUpdate, error) ==
  [InputName |-> name, CurrentRev |-> currentRev, CurrentURL |-> currentURL,
   LatestRev |-> latestRev, LatestURL |-> latestURL, IsUpdate |-> isUpdate,
   Error |-> error]

ZeroStatus == UpdateStatus("", Empty, Empty, Empty, Empty, FALSE, "")

\* checkInputUpdate testing for a pinned original before testing for Locked
checkInputUpdateStart_pinnedFirst(lock, inputName, inputRef) ==
  IF inputRef \notin DOMAIN lock.Nodes
  THEN [lookup |-> FALSE,
        update |-> UpdateStatus(inputName, Empty, Empty, Empty, Empty, FALSE,
                                "input node not found")]
  ELSE LET node == lock.Nodes[inputRef]
           cur == buildFlakeURL(node.hasLocked, node.locked)
       IN IF /\ node.hasOriginal
             /\ node.original.Ref # Empty
             /\ isCommitHash(node.original.Ref)
          THEN [lookup |-> FALSE,
                update |-> UpdateStatus(inputName, node.locked.Rev, cur,
                                        node.locked.Rev, cur, FALSE, "")]
          ELSE IF ~node.hasLocked
          THEN [lookup |-> FALSE,
                update |-> UpdateStatus(inputName, Empty, Empty, Empty, Empty, FALSE,
                                        "input has no locked version")]
          ELSE [lookup |-> TRUE,
                update |-> UpdateStatus(inputName, node.locked.Rev, cur,
                                        Empty, Empty, FALSE, "")]

\* checkInputUpdate up to the call of getLatestRevision: the status so far,
\* and whether the upstream lookup is still to be made
checkInputUpdateStart(lock, inputName, inputRef) ==
  IF inputRef \notin DOMAIN lock.Nodes
  THEN [lookup |-> FALSE,
        update |-> UpdateStatus(inputName, Empty, Empty, Empty, Empty, FALSE,
                                "input node not found")]
  ELSE LET node == lock.Nodes[inputRef]
           cur == buildFlakeURL(node.hasLocked, node.locked)
       IN IF ~node.hasLocked
          THEN [lookup |-> FALSE,
                update |-> UpdateStatus(inputName, Empty, Empty, Empty, Empty, FALSE,
                                        "input has no locked version")]
          ELSE IF /\ node.hasOriginal
                  /\ node.original.Ref # Empty
                  /\ isCommitHash(node.original.Ref)
          THEN [lookup |-> FALSE,
                update |-> UpdateStatus(inputName, node.locked.Rev, cur,
                                        node.locked.Rev, cur, FALSE, "")]
          ELSE [lookup |-> TRUE,
                update |-> UpdateStatus(inputName, node.locked.Rev, cur,
                                        Empty, Empty, FALSE, "")]

\* IsUpdate set without the test for an empty latest revision
checkInputUpdateFinish_noEmptyTest(update, ok, latestURL, latestRev) ==
  IF ~ok
  THEN [update EXCEPT !.Error = "failed to get latest revision"]
  ELSE [update EXCEPT !.LatestURL = latestURL, !.LatestRev = latestRev,
                      !.IsUpdate = (latestRev # update.CurrentRev)]

\* the latest fields filled in from the current ones when the lookup failed
checkInputUpdateFinish_latestOnError(update, ok, latestURL, latestRev) ==
  IF ~ok
  THEN [update EXCEPT !.Error = "failed to get latest revision",
                      !.LatestRev = update.CurrentRev,
                      !.LatestURL = update.CurrentURL]
  ELSE [update EXCEPT !.LatestURL = latestURL, !.LatestRev = latestRev,
                      !.IsUpdate = (latestRev # Empty /\ latestRev # update.CurrentRev)]

\* checkInputUpdate after getLatestRevision returned (ok, latestURL, latestRev)
checkInputUpdateFinish(update, ok, latestURL, latestRev) ==
  IF ~ok
  THEN [update EXCEPT !.Error = "failed to get latest revision"]
  ELSE [update EXCEPT !.LatestURL = latestURL, !.LatestRev = latestRev,
                      !.IsUpdate = (latestRev # Empty /\ latestRev # update.CurrentRev)]

\* a reference that is not a string passed over without an Error
InvalidRefStatus_silent(name) ==
  UpdateStatus(name, Empty, Empty, Empty, Empty, FALSE, "")

\* the worker's status for a reference that is not a string
InvalidRefStatus(name) ==
  UpdateStatus(name, Empty, Empty, Empty, Empty, FALSE, "invalid input reference type")

\* ------------------------------------------- updates.go: upstream lookup
StatusOK == 200
StatusNotFound == 404

\* the regular expression <dom>/([^/]+)/([^/]+)\.git of getGitHubCommit and
\* getGitLabCommit tried at position p of s: the positions where the second
\* group may end
ForgeRepoEnds(s, dom, p) ==
  IF ~At(s, p, dom \o Slash) THEN {}
  ELSE LET o0 == p + Len(dom) + 1
           o1 == NextSlash(s, o0)
           r0 == o1 + 1
           rEnd == NextSlash(s, r0) - 1
       IN IF o1 > o0 /\ o1 <= Len(s)
          THEN {e \in r0..rEnd : At(s, e + 1, DotGit)}
          ELSE {}

\* FindStringSubmatch of that expression: leftmost match, groups greedy
ForgeMatch(s, dom) ==
  LET starts == {p \in 1..Len(s) : ForgeRepoEnds(s, dom, p) # {}}
  IN IF starts = {}
     THEN [ok |-> FALSE, owner |-> Empty, repo |-> Empty]
     ELSE LET p == Min(starts)
              o0 == p + Len(dom) + 1
              o1 == NextSlash(s, o0)
              e == Max(ForgeRepoEnds(s, dom, p))
          IN [ok |-> TRUE, owner |-> SubSeq(s, o0, o1 - 1),
              repo |-> TrimSuffix(SubSeq(s, o1 + 1, e), DotGit)]

\* one of the archive extensions stands in s at position i
ExtAt(s, i) == \E x \in ArchiveExts : At(s, i, x)

\* the tarball expression of getLatestRevisionFromTarball tried at position
\* p of s: the position of the "/" that ends the first group, 0 if the
\* scheme, host, owner and repo segments do not stand there
TarballRepoSlash(s, p) ==
  LET h0 == IF At(s, p, Https) THEN p + Len(Https)
            ELSE IF At(s, p, Http) THEN p + Len(Http) ELSE 0
      h1 == NextSlash(s, h0)
      o1 == NextSlash(s, h1 + 1)
      r1 == NextSlash(s, o1 + 1)
  IN IF h0 # 0 /\ h1 > h0 /\ o1 > h1 + 1 /\ r1 > o1 + 1 /\ r1 <= Len(s)
     THEN r1 ELSE 0

\* where the second group starts, with or without the optional
\* "refs/tags/", when "/archive/" or "/releases/download/" stands at r1
TarballRefStart(s, r1, withTags) ==
  LET k == IF At(s, r1, SlashArchive) THEN r1 + Len(SlashArchive)
           ELSE IF At(s, r1, SlashReleases) THEN r1 + Len(SlashReleases)
           ELSE 0
  IN IF r1 = 0 \/ k = 0 THEN 0
     ELSE IF ~withTags THEN k
     ELSE IF At(s, k, RefsTags) THEN k + Len(RefsTags)
     ELSE 0

\* the optional "/<asset>" and an extension match after the run ending at runEnd
AssetOK(s, runEnd) ==
  /\ runEnd + 1 <= Len(s)
  /\ \E a \in (runEnd + 2)..(NextSlash(s, runEnd + 2) - 1) : ExtAt(s, a + 1)

\* where the second group, starting at st, may end so that the rest matches
TarballRefEnds(s, st) ==
  IF st = 0 THEN {}
  ELSE LET runEnd == NextSlash(s, st) - 1
       IN {e \in st..runEnd : ExtAt(s, e + 1) \/ (e = runEnd /\ AssetOK(s, runEnd))}

\* the ends of the second group for a match starting at p
TarballEndsAt(s, p, withTags) ==
  TarballRefEnds(s, TarballRefStart(s, TarballRepoSlash(s, p), withTags))

\* FindStringSubmatch of the tarball expression: leftmost match, the
\* optional parts and the groups greedy; group 1 and group 2
TarballMatch(s) ==
  LET starts == {p \in 1..Len(s) : TarballEndsAt(s, p, TRUE) # {}
                                       \/ TarballEndsAt(s, p, FALSE) # {}}
  IN IF starts = {}
     THEN [ok |-> FALSE, repoURL |-> Empty, ref |-> Empty]
     ELSE LET p == Min(starts)
              w == TarballEndsAt(s, p, TRUE) # {}
              r1 == TarballRepoSlash(s, p)
          IN [ok |-> TRUE, repoURL |-> SubSeq(s, p, r1 - 1),
              ref |-> SubSeq(s, TarballRefStart(s, r1, w),
                             Max(TarballEndsAt(s, p, w)))]

\* a lookup of getLatestRevision: the switch case taken (strategy), the
\* clone URL and ref it settled on, the API it talks to, the request it is
\* waiting on (pending), every request issued so far (reqs) with the
\* answers received (resps) and, once done, the revision or the error
NewLook ==
  [strategy |-> "", gitURL |-> Empty, ref |-> Empty, api |-> "",
   owner |-> Empty, repo |-> Empty, sha |-> Empty, pending |-> "",
   reqs |-> << >>, resps |-> << >>, done |-> FALSE, ok |-> FALSE, rev |-> Empty,
   cause |-> ""]

\* return "", fmt.Errorf(cause)
LookErr(look, cause) ==
  [look EXCEPT !.pending = "", !.done = TRUE, !.ok = FALSE, !.cause = cause]

\* return rev, nil
LookOk(look, rev) ==
  [look EXCEPT !.pending = "", !.done = TRUE, !.ok = TRUE, !.rev = rev]

\* httpClient.Get / cmd.Output issued; the caller blocks on the answer
LookAsk(look, kind) ==
  [look EXCEPT !.pending = kind,
               !.reqs = Append(@, [api |-> look.api, kind |-> kind])]

\* an answer of the upstream: a transport error, or a status code with a
\* body that decodes or not, or the output of git ls-remote
Response(failed, status, decodes, branch, sha, type, lines) ==
  [failed |-> failed, status |-> status, decodes |-> decodes, branch |-> branch,
   sha |-> sha, type |-> type, lines |-> lines]
RespErr == Response(TRUE, 0, FALSE, Empty, Empty, Empty, << >>)
RespStatus(code) == Response(FALSE, code, FALSE, Empty, Empty, Empty, << >>)
RespBadBody == Response(FALSE, StatusOK, FALSE, Empty, Empty, Empty, << >>)
RespRepo(branch) == Response(FALSE, StatusOK, TRUE, branch, Empty, Empty, << >>)
RespRef(sha, type) == Response(FALSE, StatusOK, TRUE, Empty, sha, type, << >>)
RespOut(lines) == Response(FALSE, 0, TRUE, Empty, Empty, Empty, lines)

\* getGitHubCommit up to its first request
getGitHubCommit(look, gitURL, ref) ==
  LET m == ForgeMatch(gitURL, TGithub \o DotCom)
      l == [look EXCEPT !.gitURL = gitURL, !.ref = ref, !.api = "github",
                        !.owner = m.owner, !.repo = m.repo]
  IN IF ~m.ok THEN LookErr(l, "invalid GitHub URL format")
     ELSE IF ref = Empty \/ ref = HeadRef THEN LookAsk(l, "default")
     ELSE LookAsk(l, "branch")

\* getGitLabCommit up to its first request
getGitLabCommit(look, gitURL, ref) ==
  LET m == ForgeMatch(gitURL, TGitlab \o DotCom)
      l == [look EXCEPT !.gitURL = gitURL, !.ref = ref, !.api = "gitlab",
                        !.owner = m.owner, !.repo = m.repo]
  IN IF ~m.ok THEN LookErr(l, "invalid GitLab URL format")
     ELSE IF ref = Empty \/ ref = HeadRef THEN LookAsk(l, "default")
     ELSE LookAsk(l, "branch")

\* the URL getGenericGitCommit hands to git ls-remote
GenericURL(gitURL) ==
  LET httpURL == ReplaceFirst(gitURL, GitScheme, Https)
  IN IF ~HasPrefix(httpURL, Https) /\ ~HasPrefix(httpURL, Http)
     THEN Https \o httpURL
     ELSE httpURL

\* getGenericGitCommit up to the run of git ls-remote
getGenericGitCommit(look, gitURL, ref) ==
  LookAsk([look EXCEPT !.gitURL = GenericURL(gitURL), !.ref = ref,
                       !.api = "generic"], "ls-remote")

getLatestCommitHTTP(look, gitURL, ref) ==
  IF Contains(gitURL, TGithub \o DotCom) THEN getGitHubCommit(look, gitURL, ref)
  ELSE IF Contains(gitURL, TGitlab \o DotCom) THEN getGitLabCommit(look, gitURL, ref)
  ELSE getGenericGitCommit(look, gitURL, ref)

\* getLatestRevisionFromTarball up to the first request
getLatestRevisionFromTarball(node) ==
  LET l == [NewLook EXCEPT !.strategy = "tarball"]
      m == TarballMatch(node.locked.URL)
  IN IF ~node.hasLocked \/ node.locked.URL = Empty
     THEN LookErr(l, "no tarball URL found")
     ELSE IF ~m.ok THEN LookErr(l, "cannot parse tarball URL")
     ELSE IF isCommitHash(m.ref)
     THEN LookErr(l, "tarball points to specific commit, skipping")
     ELSE getLatestCommitHTTP(l, m.repoURL \o DotGit, m.ref)

\* "https://<host>/<owner>/<repo>.git"
CloneURL(type, lockedHost, owner, repo) ==
  Https \o (IF lockedHost # Empty THEN lockedHost ELSE type \o DotCom)
        \o Slash \o owner \o Slash \o repo \o DotGit

\* getLatestRevision up to the first request, for a node with Locked
getLatestRevision(node) ==
  IF node.hasOriginal
  THEN IF node.original.Type \in {TGithub, TGitlab}
       THEN getLatestCommitHTTP([NewLook EXCEPT !.strategy = "forge"],
              CloneURL(node.original.Type, node.locked.Host, node.locked.Owner,
                       node.original.Repo),
              node.original.Ref)
       ELSE IF node.original.Type = TGit
       THEN IF HasPrefix(node.locked.URL, SshScheme)
            THEN LookErr([NewLook EXCEPT !.strategy = "git",
                                         !.gitURL = node.locked.URL,
                                         !.ref = node.original.Ref],
                         "git+ssh URLs not supported")
            ELSE getLatestCommitHTTP([NewLook EXCEPT !.strategy = "git"],
                                     node.locked.URL, node.original.Ref)
       ELSE IF node.original.Type = TTarball
       THEN getLatestRevisionFromTarball(node)
       ELSE LookErr([NewLook EXCEPT !.strategy = "unsupported"],
                    "unsupported input type")
  ELSE IF node.locked.Type \in {TGithub, TGitlab, TSourcehut}
       THEN getLatestCommitHTTP([NewLook EXCEPT !.strategy = "forge"],
              CloneURL(node.locked.Type, node.locked.Host, node.locked.Owner,
                       node.locked.Repo),
              Empty)
       ELSE IF node.locked.Type = TGit
       THEN getLatestCommitHTTP([NewLook EXCEPT !.strategy = "git"],
                                node.locked.URL, Empty)
       ELSE LookErr([NewLook EXCEPT !.strategy = "unsupported"],
                    "unsupported locked type")

\* the answer to the request for the repository: the default branch
OnDefault(look, resp) ==
  IF resp.failed THEN LookErr(look, "API request failed")
  ELSE IF resp.status # StatusOK THEN LookErr(look, "API returned status")
  ELSE IF ~resp.decodes THEN LookErr(look, "failed to decode response")
  ELSE LookAsk([look EXCEPT !.ref = resp.branch], "branch")

\* a ref answer with status and body in hand (updates.go 347-377, 448-457)
OnRefBody(look, resp) ==
  IF resp.status # StatusOK THEN LookErr(look, "API returned status for ref")
  ELSE IF ~resp.decodes THEN LookErr(look, "failed to decode response")
  ELSE IF look.api = "github" /\ resp.type = TagType
  THEN LookAsk([look EXCEPT !.sha = resp.sha], "deref")
  ELSE LookOk(look, resp.sha)

\* a failed branch request followed by an attempt with git ls-remote
OnBranch_fallback(look, resp) ==
  IF resp.failed THEN LookAsk(look, "ls-remote")
  ELSE IF resp.status = StatusNotFound THEN LookAsk(look, "tag")
  ELSE OnRefBody(look, resp)

\* the tag request made after every branch answer that is not a 200
OnBranch_tagOnAnyStatus(look, resp) ==
  IF resp.failed THEN LookErr(look, "API request failed")
  ELSE IF resp.status # StatusOK THEN LookAsk(look, "tag")
  ELSE OnRefBody(look, resp)

\* the answer to the request for refs/heads/<ref> (branches/<ref>)
OnBranch(look, resp) ==
  IF resp.failed THEN LookErr(look, "API request failed")
  ELSE IF resp.status = StatusNotFound THEN LookAsk(look, "tag")
  ELSE OnRefBody(look, resp)

\* the answer to the request for refs/tags/<ref> (tags/<ref>)
OnTag(look, resp) ==
  IF resp.failed THEN LookErr(look, "API request failed")
  ELSE OnRefBody(look, resp)

\* the answer to the request for the tag object git/tags/<sha>
OnDeref(look, resp) ==
  IF resp.failed THEN LookErr(look, "API request failed")
  ELSE IF resp.status = StatusOK /\ resp.decodes THEN LookOk(look, resp.sha)
  ELSE LookOk(look, look.sha)

\* the lines of the ls-remote output with at least two fields
RECURSIVE BestHash(_)
BestHash(lines) ==
  IF lines = << >> THEN [peeled |-> FALSE, hash |-> Empty]
  ELSE LET fields == Head(lines)
           rest == BestHash(Tail(lines))
       IN IF Len(fields) >= 2
          THEN IF HasSuffix(fields[2], Peeled)
               THEN [peeled |-> TRUE, hash |-> fields[1]]
               ELSE IF rest.peeled THEN rest
               ELSE [peeled |-> FALSE, hash |-> fields[1]]
          ELSE rest

\* git ls-remote has ended: its output parsed
OnLsRemote(look, resp) ==
  IF resp.failed THEN LookErr(look, "git ls-remote failed")
  ELSE IF resp.lines = << >> THEN LookErr(look, "no output from git ls-remote")
  ELSE IF look.ref = Empty \/ look.ref = HeadRef
  THEN IF Len(resp.lines[1]) >= 1 THEN LookOk(look, resp.lines[1][1])
       ELSE LookErr(look, "could not parse git ls-remote output")
  ELSE LET best == BestHash(resp.lines)
       IN IF best.peeled \/ best.hash # Empty THEN LookOk(look, best.hash)
          ELSE LookErr(look, "could not parse git ls-remote output")

\* the lookup resumed with the answer to its pending request
LookupStep(look, resp) ==
  LET l == [look EXCEPT !.resps = Append(@, resp)]
  IN IF look.pending = "default" THEN OnDefault(l, resp)
     ELSE IF look.pending = "branch" THEN OnBranch(l, resp)
     ELSE IF look.pending = "tag" THEN OnTag(l, resp)
     ELSE IF look.pending = "deref" THEN OnDeref(l, resp)
     ELSE OnLsRemote(l, resp)

\* the lookup carried through the answers given, in order
RECURSIVE Replay(_, _)
Replay(look, resps) ==
  IF look.done \/ resps = << >> THEN look
  ELSE Replay(LookupStep(look, Head(resps)), Tail(resps))

\* checkInputUpdate from the return of getLatestRevision on
FinishLookup(update, node, look) ==
  checkInputUpdateFinish(update, look.ok,
    IF look.ok THEN buildFlakeURL(node.hasLocked, node.locked) ELSE Empty,
    look.rev)

\* checkInputUpdate as one sequential call, the upstream giving the answers
\* resps to the requests it receives
checkInputUpdate(lock, inputName, inputRef, resps) ==
  LET r == checkInputUpdateStart(lock, inputName, inputRef)
  IN IF ~r.lookup THEN r.update
     ELSE FinishLookup(r.update, lock.Nodes[inputRef],
                       Replay(getLatestRevision(lock.Nodes[inputRef]), resps))

\* CheckUpdates returning the first per-input failure as its error
ReturnedError_firstFailure(upds) ==
  IF \E k \in DOMAIN upds : upds[k].Error # "" THEN "update check failed" ELSE ""

\* the error CheckUpdates returns after the join: nil
ReturnedError(upds) == ""

\* mu.Lock() granted although the mutex is held
LockFree_always(holder) == TRUE

\* mu.Lock() can be granted: nobody holds the mutex
LockFree(holder) == holder = ""

\* wg.Wait() returning whatever the counter is
WaitDone_always(counter) == TRUE

\* wg.Wait() returns: the WaitGroup counter is zero
WaitDone(counter) == counter = 0

\* ------------------------------------ update resolver (SpecUpdates)
InputNameOf == <<"i1", "i2", "i3", "i4", "i5">>
RootInputNames(k) == {InputNameOf[j] : j \in 1..k}
AllInputNames == RootInputNames(MaxRootInputs)

BranchRef == <<"m">>
PinnedRef == [i \in 1..CommitHashLen |-> "a"]

UpdateNodeA ==
  Node(TRUE, Lgh(<<"a">>, <<"n">>), TRUE,
       Original(TGithub, <<"o">>, <<"r">>, BranchRef), TRUE, EmptyMap)
UpdateNodeP ==
  Node(TRUE, Lgh(<<"a">>, <<"n">>), TRUE,
       Original(TGithub, <<"o">>, <<"r">>, PinnedRef), TRUE, EmptyMap)
\* a node without locked descriptor and the given inputs
Unlocked(inputsNil, inputs) ==
  Node(FALSE, ZeroLocked, FALSE, ZeroOriginal, inputsNil, inputs)

UpdateNodeB == Unlocked(TRUE, EmptyMap)

UpdateRefs ==
  {RefString("a"), RefString("p"), RefString("b"), RefString("missing"),
   RefList(<<ElemString("a")>>)}

UpdateRootInputs ==
  UNION {[RootInputNames(k) -> UpdateRefs] : k \in 0..MaxRootInputs}

UpdateRoots ==
  {Unlocked(TRUE, EmptyMap)} \cup {Unlocked(FALSE, m) : m \in UpdateRootInputs}

UpdateOthers == ("a" :> UpdateNodeA) @@ ("p" :> UpdateNodeP) @@ ("b" :> UpdateNodeB)

UpdateGraphs ==
  {[Nodes |-> UpdateOthers, Root |-> "root"]}
    \cup {[Nodes |-> ("root" :> r) @@ UpdateOthers, Root |-> "root"] : r \in UpdateRoots}

\* the commit ids the upstream may report
LatestRevs == {Empty, <<"a">>, <<"b">>}

\* the id of an annotated tag object
TagObject == <<"t">>

\* what git ls-remote may print: nothing, HEAD, a line of one field, a
\* branch, an annotated tag with its peeled line
LsRemoteOutputs ==
  {<< >>,
   << << <<"b">>, HeadRef >> >>,
   << << <<"b">> >> >>,
   << << <<"a">>, <<"r","e","f","s","/","h","e","a","d","s","/","m">> >> >>,
   << << TagObject, <<"r","e","f","s","/","t","a","g","s","/","m">> >>,
      << <<"b">>, <<"r","e","f","s","/","t","a","g","s","/","m","^","{","}">> >> >>}

\* the answers the upstream may give to each kind of request, every answer
\* the code tells apart
FullUpstream ==
  [k \in {"default", "branch", "tag", "deref", "ls-remote"} |->
     IF k = "default"
     THEN {RespErr, RespStatus(500), RespBadBody, RespRepo(BranchRef)}
     ELSE IF k \in {"branch", "tag"}
     THEN {RespErr, RespStatus(StatusNotFound), RespStatus(500), RespBadBody,
           RespRef(TagObject, TagType)}
            \cup {RespRef(rev, CommitType) : rev \in LatestRevs}
     ELSE IF k = "deref"
     THEN {RespErr, RespStatus(StatusNotFound), RespBadBody,
           RespRef(<<"b">>, CommitType)}
     ELSE {RespErr} \cup {RespOut(o) : o \in LsRemoteOutputs}]

\* an upstream with few answers: a branch that is missing, fails or is at
\* one of two commits, and an annotated tag
TerseUpstream ==
  [k \in {"default", "branch", "tag", "deref", "ls-remote"} |->
     IF k = "default" THEN {RespRepo(BranchRef)}
     ELSE IF k = "branch"
     THEN {RespErr, RespStatus(StatusNotFound),
           RespRef(<<"a">>, CommitType), RespRef(<<"b">>, CommitType)}
     ELSE IF k = "tag" THEN {RespRef(TagObject, TagType)}
     ELSE IF k = "deref" THEN {RespRef(<<"b">>, CommitType)}
     ELSE {RespErr}]

\* the answers the upstream may give to a request of the given kind
ResponsesTo(kind) == upstream[kind]

InitUpdates ==
  /\ flakeLock \in UpdateGraphs
  /\ outputFormatValid = TRUE /\ failIfMultipleVersions = FALSE
  /\ deps = EmptyMap /\ reverseDeps = EmptyMap /\ duplicates = EmptyMap
  /\ exitStatus = "none" /\ shouldFail = FALSE /\ apc = "idle"
  /\ UrlIdle
  /\ cpc = "call" /\ wg = 0 /\ mu = "" /\ updates = << >> /\ results = << >>
  /\ err = ""
  /\ wpc = [i \in AllInputNames |-> "unspawned"]
  /\ wupdate = [i \in AllInputNames |-> ZeroStatus]
  /\ wlocal = [i \in AllInputNames |-> << >>]
  /\ wlook = [i \in AllInputNames |-> NewLook]
  /\ upstream = TerseUpstream

HasRootInputs(lock) == "root" \in DOMAIN lock.Nodes /\ ~lock.Nodes["root"].inputsNil

RootInputs == flakeLock.Nodes["root"].inputs

\* CheckUpdates, lines 19-25: the structural precondition
CheckRoot ==
  /\ cpc = "call"
  /\ IF ~HasRootInputs(flakeLock)
     THEN /\ err' = "no root inputs found"
          /\ results' = << >>
          /\ cpc' = "returned"
     ELSE /\ err' = err
          /\ results' = results
          /\ cpc' = "spawn"
  /\ updates' = << >>
  /\ UNCHANGED <<wg, mu, wpc, wupdate, wlocal, wlook, upstream, urlVars, analysisVars>>

\* one iteration of the range loop: wg.Add(1); go func(name, ref)
Spawn(i) ==
  /\ cpc = "spawn"
  /\ i \in DOMAIN RootInputs
  /\ wpc[i] = "unspawned"
  /\ wg' = wg + 1
  /\ wpc' = [wpc EXCEPT ![i] = "start"]
  /\ UNCHANGED <<cpc, mu, updates, results, err, wupdate, wlocal, wlook, upstream, urlVars, analysisVars>>

\* the range loop is over: the parent reaches wg.Wait()
EndLoop ==
  /\ cpc = "spawn"
  /\ \A i \in DOMAIN RootInputs : wpc[i] # "unspawned"
  /\ cpc' = "wait"
  /\ UNCHANGED <<wg, mu, updates, results, err, wpc, wupdate, wlocal, wlook, upstream, urlVars, analysisVars>>

\* wg.Wait() returns; results.Updates = updates; return results, nil
Wait ==
  /\ cpc = "wait"
  /\ WaitDone(wg)
  /\ results' = updates
  /\ err' = ReturnedError(updates)
  /\ cpc' = "returned"
  /\ UNCHANGED <<wg, mu, updates, wpc, wupdate, wlocal, wlook, upstream, urlVars, analysisVars>>

\* the worker body up to the first blocking point: the type assertion on
\* ref, checkInputUpdate and getLatestRevision up to the first request
WorkerStart(i) ==
  /\ i \in DOMAIN wpc /\ wpc[i] = "start"
  /\ LET ref == RootInputs[i]
     IN IF ref.kind # "string"
        THEN /\ wupdate' = [wupdate EXCEPT ![i] = InvalidRefStatus(i)]
             /\ wpc' = [wpc EXCEPT ![i] = "ready"]
             /\ wlook' = wlook
        ELSE LET r == checkInputUpdateStart(flakeLock, i, ref.name)
             IN IF ~r.lookup
                THEN /\ wupdate' = [wupdate EXCEPT ![i] = r.update]
                     /\ wpc' = [wpc EXCEPT ![i] = "ready"]
                     /\ wlook' = wlook
                ELSE LET node == flakeLock.Nodes[ref.name]
                         look == getLatestRevision(node)
                     IN /\ wlook' = [wlook EXCEPT ![i] = look]
                        /\ wupdate' = [wupdate EXCEPT ![i] =
                             IF look.done THEN FinishLookup(r.update, node, look)
                             ELSE r.update]
                        /\ wpc' = [wpc EXCEPT ![i] =
                             IF look.done THEN "ready" ELSE "lookup"]
  /\ UNCHANGED <<cpc, wg, mu, updates, results, err, wlocal, upstream, urlVars, analysisVars>>

\* the pending request of the lookup is answered: the lookup goes on to its
\* next request or returns to checkInputUpdate
WorkerLookup(i) ==
  /\ i \in DOMAIN wpc /\ wpc[i] = "lookup"
  /\ \E resp \in ResponsesTo(wlook[i].pending) :
       LET look == LookupStep(wlook[i], resp)
           node == flakeLock.Nodes[RootInputs[i].name]
       IN /\ wlook' = [wlook EXCEPT ![i] = look]
          /\ wupdate' = [wupdate EXCEPT ![i] =
               IF look.done THEN FinishLookup(@, node, look) ELSE @]
          /\ wpc' = [wpc EXCEPT ![i] = IF look.done THEN "ready" ELSE "lookup"]
  /\ UNCHANGED <<cpc, wg, mu, updates, results, err, wlocal, upstream, urlVars, analysisVars>>

\* mu.Lock()
WorkerLock(i) ==
  /\ i \in DOMAIN wpc /\ wpc[i] = "ready"
  /\ LockFree(mu)
  /\ mu' = i
  /\ wpc' = [wpc EXCEPT ![i] = "locked"]
  /\ UNCHANGED <<cpc, wg, updates, results, err, wupdate, wlocal, wlook, upstream, urlVars, analysisVars>>

\* updates = append(updates, update): the read of the slice
WorkerLoad(i) ==
  /\ i \in DOMAIN wpc /\ wpc[i] = "locked"
  /\ wlocal' = [wlocal EXCEPT ![i] = updates]
  /\ wpc' = [wpc EXCEPT ![i] = "loaded"]
  /\ UNCHANGED <<cpc, wg, mu, updates, results, err, wupdate, wlook, upstream, urlVars, analysisVars>>

\* updates = append(updates, update): the write of the extended slice
WorkerStore(i) ==
  /\ i \in DOMAIN wpc /\ wpc[i] = "loaded"
  /\ updates' = Append(wlocal[i], wupdate[i])
  /\ wlocal' = [wlocal EXCEPT ![i] = << >>]
  /\ wupdate' = [wupdate EXCEPT ![i] = ZeroStatus]
  /\ wpc' = [wpc EXCEPT ![i] = "stored"]
  /\ UNCHANGED <<cpc, wg, mu, results, err, wlook, upstream, urlVars, analysisVars>>

\* the worker leaving the critical section without mu.Unlock()
WorkerUnlock_keep(i) ==
  /\ i \in DOMAIN wpc /\ wpc[i] = "stored"
  /\ wpc' = [wpc EXCEPT ![i] = "unlocked"]
  /\ UNCHANGED <<cpc, wg, mu, updates, results, err, wupdate, wlocal, wlook, upstream, urlVars, analysisVars>>

\* mu.Unlock()
WorkerUnlock(i) ==
  /\ i \in DOMAIN wpc /\ wpc[i] = "stored"
  /\ mu' = ""
  /\ wpc' = [wpc EXCEPT ![i] = "unlocked"]
  /\ UNCHANGED <<cpc, wg, updates, results, err, wupdate, wlocal, wlook, upstream, urlVars, analysisVars>>

\* the worker ending without the deferred wg.Done()
WorkerDone_skipped(i) ==
  /\ i \in DOMAIN wpc /\ wpc[i] = "unlocked"
  /\ wpc' = [wpc EXCEPT ![i] = "done"]
  /\ UNCHANGED <<cpc, wg, mu, updates, results, err, wupdate, wlocal, wlook, upstream, urlVars, analysisVars>>

\* the deferred wg.Done()
WorkerDone(i) ==
  /\ i \in DOMAIN wpc /\ wpc[i] = "unlocked"
  /\ wg' = wg - 1
  /\ wpc' = [wpc EXCEPT ![i] = "done"]
  /\ UNCHANGED <<cpc, mu, updates, results, err, wupdate, wlocal, wlook, upstream, urlVars, analysisVars>>

Worker(i) ==
  \/ WorkerStart(i) \/ WorkerLookup(i) \/ WorkerLock(i) \/ WorkerLoad(i)
  \/ WorkerStore(i) \/ WorkerUnlock(i) \/ WorkerDone(i)

NextUpdates ==
  \/ CheckRoot
  \/ \E i \in AllInputNames : Spawn(i)
  \/ EndLoop
  \/ Wait
  \/ \E i \in AllInputNames : Worker(i)

SpecUpdates == InitUpdates /\ [][NextUpdates]_vars

\* --------------------------------- one input resolved (SpecResolve)
\* original.ref values: none, a branch, HEAD, a commit hash, and strings
\* that differ from a commit hash in case, length or one character
UpperRef == [i \in 1..CommitHashLen |-> IF i = 1 THEN "A" ELSE "a"]
ShortRef == [i \in 1..(CommitHashLen - 1) |-> "a"]
LongRef == [i \in 1..(CommitHashLen + 1) |-> "a"]
NonHexRef == [i \in 1..CommitHashLen |-> IF i = CommitHashLen THEN "g" ELSE "a"]
ResolveRefs ==
  {Empty, BranchRef, HeadRef, PinnedRef, UpperRef, ShortRef, LongRef, NonHexRef}

ForgeLocked(type, host) ==
  Locked(type, <<"o">>, <<"r">>, host, Empty, Empty, <<"a">>, Empty)

\* a node with (hasOriginal) or without an original descriptor of a type
ResolveNode(locked, hasOriginal, type, ref) ==
  Node(TRUE, locked, hasOriginal,
       IF hasOriginal THEN Original(type, <<"o">>, <<"r">>, ref) ELSE ZeroOriginal,
       TRUE, EmptyMap)

ForgeNodes ==
  {ResolveNode(ForgeLocked(TGithub, Empty), TRUE, TGithub, r) : r \in ResolveRefs}
    \cup {ResolveNode(ForgeLocked(t, h), TRUE, t, r) :
            t \in {TGithub, TGitlab, TSourcehut}, h \in {Empty, <<"h">>},
            r \in {Empty, BranchRef}}
    \cup {ResolveNode(ForgeLocked(t, h), FALSE, Empty, Empty) :
            t \in {TGithub, TGitlab, TSourcehut}, h \in {Empty, <<"h">>}}
    \cup {ResolveNode(ForgeLocked(TGithub, Empty), TRUE, TIndirect, Empty)}

GitURLs ==
  {<<"h","t","t","p","s",":","/","/","h","/","r">>, <<"s","s","h",":","/","/","h","/","r">>, <<"g","i","t",":","/","/","h","/","r">>, <<"h","t","t","p","s",":","/","/","g","i","t","h","u","b",".","c","o","m","/","o","/","r",".","g","i","t">>, <<"h","t","t","p","s",":","/","/","g","i","t","h","u","b",".","c","o","m","/","o","/","r">>}

GitNodes ==
  {ResolveNode(Lgit(u, <<"a">>), TRUE, TGit, r) : u \in GitURLs, r \in {Empty, BranchRef}}
    \cup {ResolveNode(Lgit(u, <<"a">>), FALSE, Empty, Empty) : u \in GitURLs}

TarballTag == <<"h","t","t","p","s",":","/","/","h","/","o","/","r","/","a","r","c","h","i","v","e","/","v","1",".","z","i","p">>
TarballCommit == <<"h","t","t","p","s",":","/","/","h","/","o","/","r","/","a","r","c","h","i","v","e","/">> \o PinnedRef \o <<".","z","i","p">>
TarballRelease == <<"h","t","t","p","s",":","/","/","h","/","o","/","r","/","r","e","l","e","a","s","e","s","/","d","o","w","n","l","o","a","d","/","v","1","/","f",".","z","i","p">>
TarballOther == <<"h","t","t","p","s",":","/","/","h","/","o","/","r",".","z","i","p">>
TarballURLs == {Empty, TarballTag, TarballCommit, TarballRelease, TarballOther}

TarballNodes ==
  {ResolveNode(Ltarball(u, <<"a">>), TRUE, TTarball, Empty) : u \in TarballURLs}
    \cup {ResolveNode(Ltarball(u, <<"a">>), FALSE, Empty, Empty) : u \in TarballURLs}

OtherNodes ==
  {ResolveNode(Locked(TPath, Empty, Empty, Empty, Empty, <<"/","p">>, Empty, Empty),
               o, IF o THEN TPath ELSE Empty, Empty) : o \in BOOLEAN}
    \cup {ResolveNode(Lindirect(<<"a">>), FALSE, Empty, Empty),
          ResolveNode(Locked(THg, Empty, Empty, Empty, <<"u">>, Empty, <<"a">>, Empty),
                      FALSE, Empty, Empty)}

\* nodes without locked descriptor, one of them with a pinned original
UnlockedNodes ==
  {Unlocked(TRUE, EmptyMap),
   Node(FALSE, ZeroLocked, TRUE, Original(TGithub, <<"o">>, <<"r">>, PinnedRef),
        TRUE, EmptyMap)}

ResolveNodes ==
  ForgeNodes \cup GitNodes \cup TarballNodes \cup OtherNodes \cup UnlockedNodes

\* locks whose root has the one input i1
ResolveGraphs ==
  {[Nodes |-> ("root" :> Unlocked(FALSE, "i1" :> RefString("x"))) @@ ("x" :> n),
    Root |-> "root"] : n \in ResolveNodes}
    \cup {[Nodes |-> ("root" :> Unlocked(FALSE, "i1" :> r)) @@ ("x" :> UpdateNodeA),
           Root |-> "root"] :
            r \in {RefString("missing"), RefList(<<ElemString("x")>>), RefOther}}

\* locks whose root field names a node other than "root" (with and without
\* a node called "root" beside it) or names no node at all
RootFieldGraphs ==
  {[Nodes |-> ("root" :> Unlocked(FALSE, "i1" :> RefString("x")))
                @@ ("top" :> Unlocked(FALSE, "i1" :> RefString("missing")))
                @@ ("x" :> UpdateNodeA),
    Root |-> "top"],
   [Nodes |-> ("top" :> Unlocked(FALSE, "i1" :> RefString("x"))) @@ ("x" :> UpdateNodeA),
    Root |-> "top"],
   [Nodes |-> ("root" :> Unlocked(FALSE, "i1" :> RefString("x"))) @@ ("x" :> UpdateNodeA),
    Root |-> "gone"]}

InitResolve ==
  /\ flakeLock \in ResolveGraphs \cup RootFieldGraphs
  /\ outputFormatValid = TRUE /\ failIfMultipleVersions = FALSE
  /\ deps = EmptyMap /\ reverseDeps = EmptyMap /\ duplicates = EmptyMap
  /\ exitStatus = "none" /\ shouldFail = FALSE /\ apc = "idle"
  /\ UrlIdle
  /\ cpc = "call" /\ wg = 0 /\ mu = "" /\ updates = << >> /\ results = << >>
  /\ err = ""
  /\ wpc = [i \in AllInputNames |-> "unspawned"]
  /\ wupdate = [i \in AllInputNames |-> ZeroStatus]
  /\ wlocal = [i \in AllInputNames |-> << >>]
  /\ wlook = [i \in AllInputNames |-> NewLook]
  /\ upstream = FullUpstream

SpecResolve == InitResolve /\ [][NextUpdates]_vars

\* ------------------------------- scheduling of the workers (SpecFair)
\* locks whose root has one input or more, each naming the node "a", whose
\* status needs an upstream lookup, or no node
FairGraphs ==
  {[Nodes |-> ("root" :> Unlocked(FALSE, m)) @@ UpdateOthers, Root |-> "root"] :
     m \in UNION {[RootInputNames(k) -> {RefString("a"), RefString("missing")}] :
                    k \in 1..MaxRootInputs}}

\* an upstream whose branch request fails or names a commit
BriefUpstream ==
  [TerseUpstream EXCEPT !["branch"] = {RespErr, RespRef(<<"b">>, CommitType)}]

InitFair ==
  /\ flakeLock \in FairGraphs
  /\ outputFormatValid = TRUE /\ failIfMultipleVersions = FALSE
  /\ deps = EmptyMap /\ reverseDeps = EmptyMap /\ duplicates = EmptyMap
  /\ exitStatus = "none" /\ shouldFail = FALSE /\ apc = "idle"
  /\ UrlIdle
  /\ cpc = "call" /\ wg = 0 /\ mu = "" /\ updates = << >> /\ results = << >>
  /\ err = ""
  /\ wpc = [i \in AllInputNames |-> "unspawned"]
  /\ wupdate = [i \in AllInputNames |-> ZeroStatus]
  /\ wlocal = [i \in AllInputNames |-> << >>]
  /\ wlook = [i \in AllInputNames |-> NewLook]
  /\ upstream = BriefUpstream

\* the positions of a worker
WorkerPcs ==
  {"unspawned", "start", "lookup", "ready", "locked", "loaded", "stored",
   "unlocked", "done"}

\* worker i can take a step without an answer of the upstream: it is
\* anywhere but in a request, and if it is at mu.Lock() the mutex is free
Runnable(i) ==
  \/ wpc[i] \in {"start", "locked", "loaded", "stored", "unlocked"}
  \/ wpc[i] = "ready" /\ LockFree(mu)

\* worker i takes such a step; the steps of NextUpdates that move a runnable
\* worker i are WorkerStart(i), WorkerLock(i), WorkerLoad(i), WorkerStore(i),
\* WorkerUnlock(i) and WorkerDone(i)
Runs(i) ==
  /\ Runnable(i)
  /\ \E pc \in WorkerPcs \ {wpc[i]} : wpc' = [wpc EXCEPT ![i] = pc]

\* CheckUpdates itself: the goroutine of the caller
Parent == CheckRoot \/ (\E i \in AllInputNames : Spawn(i)) \/ EndLoop \/ Wait

\* runnable goroutines get to run and a free mutex is handed to a waiter;
\* httpClient.Get and cmd.Output return only if the upstream answers, so
\* WorkerLookup is under no fairness condition
Fairness ==
  /\ WF_vars(Parent)
  /\ \A i \in AllInputNames : WF_wpc(Runs(i))

SpecFair == InitFair /\ [][NextUpdates]_vars /\ Fairness

\* --------------------------------------- properties of the update resolver
RootMissing == "root" \notin DOMAIN flakeLock.Nodes

RootZeroInputs ==
  /\ ~RootMissing
  /\ \/ flakeLock.Nodes["root"].inputsNil
     \/ DOMAIN flakeLock.Nodes["root"].inputs = {}

NoWorkerStarted == \A i \in DOMAIN wpc : wpc[i] = "unspawned"

\* C8: with no root node, or a root node declaring zero inputs (inputs
\* absent or an empty mapping), CheckUpdates returns a non-nil error and an
\* empty result list before starting any worker; otherwise the error is nil.
C8_StructuralPrecondition ==
  cpc = "returned" =>
    IF RootMissing \/ RootZeroInputs
    THEN err # "" /\ results = << >> /\ NoWorkerStarted
    ELSE err = ""

StatusesOf(i) == {k \in DOMAIN results : results[k].InputName = i}

\* C9: under every interleaving the returned list holds exactly one
\* UpdateStatus per input of the root node: its length is the number of
\* root inputs and every input name occurs exactly once.
C9_OneStatusPerInput ==
  (cpc = "returned" /\ err = "") =>
    /\ Len(results) = Cardinality(DOMAIN RootInputs)
    /\ \A i \in DOMAIN RootInputs : Cardinality(StatusesOf(i)) = 1

\* two workers appended, the second root input first
C9_Witness ==
  /\ cpc = "returned" /\ err = ""
  /\ Len(results) >= 2
  /\ results[1].InputName = "i2" /\ results[2].InputName = "i1"

\* C10: join barrier -- when CheckUpdates has returned, every worker it
\* started has appended its status and finished, and none holds the mutex.
C10_JoinBarrier ==
  cpc = "returned" =>
    /\ \A i \in DOMAIN wpc :
         /\ wpc[i] \in {"unspawned", "done"}
         /\ wpc[i] = "done" => StatusesOf(i) # {}
    /\ HasRootInputs(flakeLock) => \A i \in DOMAIN RootInputs : wpc[i] = "done"
    /\ wg = 0 /\ mu = ""

\* returned after two workers, one of which made an upstream lookup
C10_Witness ==
  /\ cpc = "returned"
  /\ Cardinality({i \in DOMAIN wpc : wpc[i] = "done"}) >= 2
  /\ \E k \in DOMAIN results : results[k].LatestRev = <<"b">> /\ results[k].IsUpdate

\* the lock with input j taken out of the root node
WithoutInput(lock, j) ==
  [lock EXCEPT !.Nodes["root"].inputs =
     [i \in (DOMAIN lock.Nodes["root"].inputs) \ {j} |->
        lock.Nodes["root"].inputs[i]]]

\* the status input i of the root of lock gets from the worker body run on
\* its own, the upstream answering as it answered worker i
StatusAlone(lock, i) ==
  LET ref == lock.Nodes["root"].inputs[i]
  IN IF ref.kind # "string" THEN InvalidRefStatus(i)
     ELSE checkInputUpdate(lock, i, ref.name, wlook[i].resps)

FailedInput(j) == \E k \in StatusesOf(j) : results[k].Error # ""

\* C11: per-input failure isolation -- when the root has inputs, a failure
\* to resolve one input is recorded in that input's status only:
\* CheckUpdates returns a nil error, and the status of every other input is
\* the status it gets when the failing input is absent from the root.
C11_FailureIsolation ==
  (cpc = "returned" /\ HasRootInputs(flakeLock)) =>
    /\ err = ""
    /\ \A j \in DOMAIN RootInputs :
         FailedInput(j) =>
           \A i \in (DOMAIN RootInputs) \ {j} :
             /\ StatusesOf(i) # {}
             /\ \A k \in StatusesOf(i) :
                  results[k] = StatusAlone(WithoutInput(flakeLock, j), i)

\* one input failed, the other was found to have an update
C11_Witness ==
  /\ cpc = "returned" /\ err = ""
  /\ \E j, i \in DOMAIN RootInputs :
       /\ i # j /\ FailedInput(j)
       /\ \E k \in StatusesOf(i) :
            /\ results[k].IsUpdate /\ results[k].Error = ""
            /\ results[k].LatestRev = <<"b">>

\* ------------------------------------- properties of one input resolved
\* workers whose status is settled: past the lookup, not yet cleared
Settled == {i \in DOMAIN wpc : wpc[i] \in {"ready", "locked", "loaded"}}

\* the root input of worker i names, by a string, a node of the lock
NamesNode(i) ==
  /\ HasRootInputs(flakeLock) /\ i \in DOMAIN RootInputs
  /\ RootInputs[i].kind = "string"
  /\ RootInputs[i].name \in DOMAIN flakeLock.Nodes

NodeOf(i) == flakeLock.Nodes[RootInputs[i].name]

\* str is 40 characters, each a digit or a letter a to f
FortyLowerHex(str) ==
  /\ Len(str) = 40
  /\ \A k \in DOMAIN str :
       str[k] \in {"0","1","2","3","4","5","6","7","8","9","a","b","c","d","e","f"}

PinnedOriginal(i) == NodeOf(i).hasOriginal /\ FortyLowerHex(NodeOf(i).original.Ref)

\* C12: PinnedSkip -- for an input whose node exists and has a locked
\* descriptor, an original.ref of 40 lowercase hexadecimal characters means
\* that no upstream request is ever issued and the status has LatestRev =
\* CurrentRev = locked.rev, IsUpdate false and no Error; a ref of any other
\* length or with any other character (uppercase A-F included) is not
\* treated as pinned: the lookup of the latest revision is made.
C12_PinnedSkip ==
  \A i \in DOMAIN wpc :
    (NamesNode(i) /\ NodeOf(i).hasLocked) =>
      IF PinnedOriginal(i)
      THEN /\ wlook[i] = NewLook
           /\ wpc[i] # "lookup"
           /\ i \in Settled =>
                /\ wupdate[i].LatestRev = NodeOf(i).locked.Rev
                /\ wupdate[i].CurrentRev = NodeOf(i).locked.Rev
                /\ ~wupdate[i].IsUpdate
                /\ wupdate[i].Error = ""
      ELSE i \in Settled => wlook[i].strategy # "" /\ wlook[i].done

\* a pinned input settled without a request
C12_Witness ==
  \E i \in Settled :
    /\ NamesNode(i) /\ NodeOf(i).hasLocked /\ PinnedOriginal(i)
    /\ wupdate[i].LatestRev = <<"a">> /\ wupdate[i].CurrentRev = <<"a">>
    /\ wlook[i].reqs = << >>

\* C13: ResolveNode -- when the node a root input names does not exist, or
\* exists without locked descriptor, the status has InputName set and a
\* non-empty Error, and resolution stops there: no pinned check (the status
\* never takes the pinned shape) and no upstream request.
C13_ResolveNodeFailure ==
  \A i \in DOMAIN wpc :
    (/\ HasRootInputs(flakeLock) /\ i \in DOMAIN RootInputs
     /\ RootInputs[i].kind = "string"
     /\ (NamesNode(i) => ~NodeOf(i).hasLocked)) =>
      /\ wlook[i] = NewLook
      /\ wpc[i] # "lookup"
      /\ i \in Settled =>
           /\ wupdate[i].InputName = i
           /\ wupdate[i].Error # ""
           /\ wupdate[i].LatestRev = Empty /\ wupdate[i].LatestURL = Empty
           /\ ~wupdate[i].IsUpdate

\* an input naming a node without locked but with a pinned original, settled
C13_Witness ==
  \E i \in Settled :
    /\ NamesNode(i) /\ ~NodeOf(i).hasLocked /\ PinnedOriginal(i)
    /\ wupdate[i].InputName = i /\ wupdate[i].Error # ""

\* every status a worker has settled or CheckUpdates has collected
AllStatuses ==
  {wupdate[i] : i \in Settled} \cup {updates[k] : k \in DOMAIN updates}
    \cup {results[k] : k \in DOMAIN results}

\* C14: in every UpdateStatus, whichever path produced it (resolve error,
\* pinned, lookup error, lookup success), IsUpdate is true exactly when
\* LatestRev is non-empty and differs from CurrentRev.
C14_IsUpdateMeaning ==
  \A u \in AllStatuses :
    u.IsUpdate <=> (u.LatestRev # Empty /\ u.LatestRev # u.CurrentRev)

\* a returned status of a lookup that found the locked revision again
C14_Witness ==
  /\ cpc = "returned"
  /\ \E k \in DOMAIN results :
       /\ results[k].Error = "" /\ ~results[k].IsUpdate
       /\ results[k].LatestRev = results[k].CurrentRev
       /\ results[k].LatestRev # Empty
       /\ wlook[results[k].InputName].reqs # << >>

\* original.type when the node has an original descriptor, else locked.type
EffectiveType(n) == IF n.hasOriginal THEN n.original.Type ELSE n.locked.Type

\* worker i has settled the status of an unpinned input with locked descriptor
LookedUp(i) ==
  /\ i \in Settled /\ NamesNode(i) /\ NodeOf(i).hasLocked /\ ~PinnedOriginal(i)

\* C18: LookupLatest dispatch -- for an unpinned input with a locked
\* descriptor the strategy depends on the effective type only: github and
\* gitlab build the HTTPS clone URL from host, owner and repo; git takes the
\* locked URL; tarball takes the tarball-URL reconstruction; every other
\* effective type gives the per-input 'unsupported type' error without any
\* upstream request -- whether the type came from original or from locked.
C18_DispatchByEffectiveType ==
  \A i \in DOMAIN wpc :
    LookedUp(i) =>
      LET n == NodeOf(i)
          t == EffectiveType(n)
          host == IF n.locked.Host # Empty THEN n.locked.Host ELSE t \o DotCom
      IN IF t \in {TGithub, TGitlab}
         THEN /\ wlook[i].strategy = "forge"
              /\ wlook[i].gitURL
                   = Https \o host \o Slash \o n.locked.Owner \o Slash
                       \o n.locked.Repo \o DotGit
         ELSE IF t = TGit
         THEN /\ wlook[i].strategy = "git"
              /\ wlook[i].gitURL \in {n.locked.URL, GenericURL(n.locked.URL)}
         ELSE IF t = TTarball
         THEN wlook[i].strategy = "tarball"
         ELSE /\ wlook[i].strategy = "unsupported"
              /\ wlook[i].reqs = << >>
              /\ wupdate[i].Error # ""

\* C19: SSH rejection -- for every unpinned input whose effective type is
\* git and whose locked URL uses the ssh:// scheme, the status carries a
\* non-empty Error and no upstream request is issued, whether the type git
\* comes from original or, original being absent, from locked.
C19_SshRejected ==
  \A i \in DOMAIN wpc :
    (/\ NamesNode(i) /\ NodeOf(i).hasLocked /\ ~PinnedOriginal(i)
     /\ EffectiveType(NodeOf(i)) = TGit
     /\ HasPrefix(NodeOf(i).locked.URL, SshScheme)) =>
      /\ wlook[i].reqs = << >>
      /\ i \in Settled => wupdate[i].Error # ""

\* C20: tarball inputs -- when the tarball URL matches the archive/releases
\* convention and the ref it names is a 40-character lowercase-hex commit
\* hash, the input is treated as pinned: no upstream request, LatestRev =
\* CurrentRev, IsUpdate false, no Error; when the URL does not match the
\* convention, the status carries an Error and no upstream request is made.
C20_TarballPinned ==
  \A i \in DOMAIN wpc :
    (LookedUp(i) /\ EffectiveType(NodeOf(i)) = TTarball) =>
      LET m == TarballMatch(NodeOf(i).locked.URL)
      IN /\ (m.ok /\ FortyLowerHex(m.ref)) =>
              /\ wlook[i].reqs = << >>
              /\ wupdate[i].LatestRev = wupdate[i].CurrentRev
              /\ ~wupdate[i].IsUpdate
              /\ wupdate[i].Error = ""
         /\ ~m.ok => (wupdate[i].Error # "" /\ wlook[i].reqs = << >>)

\* the answer to the k-th request of a lookup is not a good one: the call
\* returned an error, or the hosting API answered with a status other than 200
BadAnswer(look, k) ==
  \/ look.resps[k].failed
  \/ look.reqs[k].kind # "ls-remote" /\ look.resps[k].status # StatusOK

GivenRef(i) == getLatestRevision(NodeOf(i)).ref

\* the k-th request of look is of the given kind and was answered with
\* an HTTP status in codes
Answered(look, k, kind, codes) ==
  /\ k \in DOMAIN look.resps
  /\ look.reqs[k].kind = kind
  /\ ~look.resps[k].failed
  /\ look.resps[k].status \in codes

\* the same with an HTTP status that is none of codes
AnsweredOther(look, k, kind, codes) ==
  /\ k \in DOMAIN look.resps
  /\ look.reqs[k].kind = kind
  /\ ~look.resps[k].failed
  /\ look.resps[k].status \notin codes

\* C22: ref lookup order on the GitHub and GitLab API paths -- the
\* default-branch request is the first request and is issued exactly when
\* the ref given is empty or HEAD; a tag-ref request comes directly after
\* the branch-ref request, and exactly when that was answered 404; a
\* branch-ref answer with another non-200 status, or a non-200 answer to
\* the tag-ref request, ends the input in an Error with no further request.
C22_RefLookupOrder ==
  \A i \in DOMAIN wpc :
    (NamesNode(i) /\ wlook[i].api \in {"github", "gitlab"}) =>
      LET look == wlook[i]
          reqs == look.reqs
          noRef == GivenRef(i) \in {Empty, HeadRef}
      IN /\ \A k \in DOMAIN reqs : reqs[k].kind = "default" => k = 1 /\ noRef
         /\ (reqs # << >> /\ noRef) => reqs[1].kind = "default"
         /\ (reqs # << >> /\ ~noRef) => reqs[1].kind = "branch"
         /\ Answered(look, 1, "default", {StatusOK}) /\ look.resps[1].decodes
              => Len(reqs) >= 2 /\ reqs[2].kind = "branch"
         /\ \A k \in DOMAIN reqs :
              reqs[k].kind = "tag" =>
                k > 1 /\ Answered(look, k - 1, "branch", {StatusNotFound})
         /\ \A k \in DOMAIN look.resps :
              /\ Answered(look, k, "branch", {StatusNotFound}) =>
                   Len(reqs) > k /\ reqs[k + 1].kind = "tag"
              /\ (\/ AnsweredOther(look, k, "branch", {StatusOK, StatusNotFound})
                  \/ AnsweredOther(look, k, "tag", {StatusOK})) =>
                   /\ Len(reqs) = k /\ look.done /\ ~look.ok
                   /\ i \in Settled => wupdate[i].Error # ""

\* no ref given: default branch, branch ref not found, tag ref not found
C22_Witness ==
  \E i \in Settled :
    /\ NamesNode(i) /\ wlook[i].api = "github" /\ GivenRef(i) = Empty
    /\ Len(wlook[i].reqs) = 3
    /\ Answered(wlook[i], 1, "default", {StatusOK})
    /\ Answered(wlook[i], 2, "branch", {StatusNotFound})
    /\ Answered(wlook[i], 3, "tag", {StatusNotFound})
    /\ wupdate[i].Error # ""

\* the k-th answer of look is the ref object the lookup resolved to
Resolved(look, k) ==
  /\ (Answered(look, k, "branch", {StatusOK}) \/ Answered(look, k, "tag", {StatusOK}))
  /\ look.resps[k].decodes

\* C23: tag dereference -- whenever the GitHub ref lookup resolves to an
\* object of type "tag", exactly one dereference request follows and the
\* LatestRev reported is the commit the tag object points to, never the
\* SHA of the tag object, whatever the answer to the dereference request;
\* when the resolved object is not a tag, no dereference request is made
\* and its SHA is reported.
C23_TagDereference ==
  \A i \in Settled :
    (NamesNode(i) /\ wlook[i].api = "github") =>
      LET look == wlook[i]
      IN \A k \in DOMAIN look.resps :
           Resolved(look, k) =>
             IF look.resps[k].type = TagType
             THEN /\ Len(look.reqs) = k + 1
                  /\ look.reqs[k + 1].kind = "deref"
                  /\ wupdate[i].LatestRev # look.resps[k].sha
                  /\ (Answered(look, k + 1, "deref", {StatusOK})
                        /\ look.resps[k + 1].decodes)
                       => wupdate[i].LatestRev = look.resps[k + 1].sha
             ELSE /\ Len(look.reqs) = k
                  /\ wupdate[i].LatestRev = look.resps[k].sha
                  /\ wupdate[i].Error = ""

\* the mutex is held by worker i exactly while i is inside the append
MutexAroundAppend ==
  \A i \in DOMAIN wpc : mu = i <=> wpc[i] \in {"locked", "loaded", "stored"}

\* C24: workers do not block each other -- the mutex is held only by a
\* worker inside the append of its finished status (so never during a
\* lookup, and by one worker at a time), and a worker whose status is
\* finished always gets to append it and end, even when other workers
\* stay in their upstream lookups forever.
C24_WorkersDoNotBlock ==
  /\ []MutexAroundAppend
  /\ \A i \in AllInputNames : (wpc[i] = "ready") ~> (wpc[i] = "done")

\* one worker still waits for the upstream, another has appended and ended
C24_Witness ==
  \E i, j \in DOMAIN wpc :
    /\ wpc[i] = "lookup" /\ wpc[j] = "done" /\ mu = ""
    /\ \E k \in DOMAIN updates : updates[k].InputName = j

\* CheckUpdates has returned one status for each input of the root
ReturnedAll ==
  /\ cpc = "returned" /\ err = ""
  /\ Len(results) = Cardinality(DOMAIN RootInputs)
  /\ \A i \in DOMAIN RootInputs : Cardinality(StatusesOf(i)) = 1

\* C30: termination of CheckUpdates -- under fair scheduling of the
\* workers, if no worker stays in its upstream lookup forever, CheckUpdates
\* eventually returns with one status per root input; and if some worker
\* stays in its lookup forever, CheckUpdates never returns.
C30_Termination ==
  /\ (\A i \in AllInputNames : []<>(wpc[i] # "lookup")) => <>ReturnedAll
  /\ (\E i \in AllInputNames : <>[](wpc[i] = "lookup")) => [](cpc # "returned")

\* returned after every worker got an answer to its request
C30_Witness ==
  /\ ReturnedAll /\ Len(results) >= 2
  /\ \A i \in DOMAIN RootInputs :
       RootInputs[i] = RefString("a") /\ Len(wlook[i].resps) = 1

\* the status of input i of node r of the lock, the upstream answering as
\* it answered worker i
StatusOfInput(r, i) ==
  LET ref == flakeLock.Nodes[r].inputs[i]
  IN IF ref.kind # "string" THEN InvalidRefStatus(i)
     ELSE checkInputUpdate(flakeLock, i, ref.name, wlook[i].resps)

\* C25: CheckUpdates resolves the inputs of the node R named by the root
\* field of the lock -- when R is a node with inputs, the statuses returned
\* are exactly those of R's inputs, one for each, and no error is
\* returned; the 'no root' error is returned when R is not a node.
C25_RootField ==
  cpc = "returned" =>
    LET R == flakeLock.Root
    IN IF R \notin DOMAIN flakeLock.Nodes
       THEN err # "" /\ results = << >>
       ELSE ~flakeLock.Nodes[R].inputsNil =>
              /\ err = ""
              /\ {results[k].InputName : k \in DOMAIN results}
                   = DOMAIN flakeLock.Nodes[R].inputs
              /\ \A k \in DOMAIN results :
                   results[k] = StatusOfInput(R, results[k].InputName)

\* a step of the resolution of input i failed: the reference is no string,
\* names no node, the node has no locked descriptor, or the lookup of the
\* latest revision returned an error
StepFailed(i) ==
  \/ RootInputs[i].kind # "string"
  \/ ~NamesNode(i)
  \/ ~NodeOf(i).hasLocked
  \/ wlook[i].done /\ ~wlook[i].ok

BareError(u, i) ==
  /\ u.InputName = i /\ u.Error # ""
  /\ u.CurrentRev = Empty /\ u.CurrentURL = Empty
  /\ u.LatestRev = Empty /\ u.LatestURL = Empty /\ ~u.IsUpdate

\* C29: a root input whose reference is not a single node name (a list of
\* names, or any other value) is not flattened -- no upstream request is
\* ever made for it, the status its worker builds has only InputName and a
\* non-empty Error, and the list CheckUpdates returns holds exactly one
\* status with that InputName, of that shape.
C29_NonStringRootRef ==
  \A i \in DOMAIN wpc :
    (/\ HasRootInputs(flakeLock) /\ i \in DOMAIN RootInputs
     /\ RootInputs[i].kind # "string") =>
      /\ wlook[i] = NewLook /\ wpc[i] # "lookup"
      /\ i \in Settled => BareError(wupdate[i], i)
      /\ cpc = "returned" =>
           /\ Cardinality(StatusesOf(i)) = 1
           /\ \A k \in StatusesOf(i) : BareError(results[k], i)

\* returned: the input given as a list has its Error, the other its update
C29_Witness ==
  /\ cpc = "returned" /\ Len(results) = 2
  /\ RootInputs["i1"] = RefList(<<ElemString("a")>>)
  /\ RootInputs["i2"] = RefString("a")
  /\ \E k \in StatusesOf("i1") : BareError(results[k], "i1")
  /\ \E k \in StatusesOf("i2") : results[k].IsUpdate

====
